---- MODULE Spec2Model ----
(***************************************************************************)
(* Invigilator timer: the timer engine (packages/core timer-engine),       *)
(* the utilities that build sessions and desks, and the application store  *)
(* and screens that drive them.                                            *)
(*                                                                         *)
(* Eight specifications share the state:                                   *)
(*   Spec     the engine as a library: a caller holds one (session,        *)
(*            timerState) pair, starts from a freshly created session and  *)
(*            the pre-exam timer state, and calls the engine functions in  *)
(*            any order with the current clocks.                           *)
(*   UncheckedSpec  Spec with a caller that passes D.P. minutes on to the  *)
(*            engine without validating them.                              *)
(*   AppSpec  the application: the session screen's handleSave and the     *)
(*            store's timer actions, with the store's null checks; the     *)
(*            writes to the record store are left to PersistSpec.          *)
(*   ScreenSpec  the exam screen: its buttons as it offers them, the tick  *)
(*            and the effect that ends the reading time, both fair.        *)
(*   ScenarioSpec  the exam screen on a 90 minute exam with 10 minutes of  *)
(*            reading time and grants of 30 minutes.                       *)
(*   PersistSpec  the store with the SQLite record store and the timer     *)
(*            state cache: un-awaited persists, statement by statement,    *)
(*            loads, and a restart of the process.                         *)
(*   DeleteSpec  the store with the record store and the cache: the        *)
(*            un-awaited persists and the deletion of the session.         *)
(*   DisplaySpec  the formatting and colour functions of the exam screen   *)
(*            applied to sample remaining times.                           *)
(*                                                                         *)
(* Optional values (number | undefined) are sequences of length 0 or 1.    *)
(* Times are integer milliseconds, durations of the configuration whole    *)
(* minutes, exactly as in the source.                                      *)
(***************************************************************************)
EXTENDS Integers, Sequences, FiniteSets, TLC

VARIABLES
  activeSession,  \* the Session held by the caller / the store (Null when none)
  timerState,     \* the TimerState held by the caller / the store (Null when none)
  monoNow,        \* performance.now(): the monotonic clock
  epochNow,       \* Date.now(): the wall clock
  nextId,         \* number of ids generateId has handed out
  dpCalls,        \* history: per desk, the deltas applyDPTime was called with, in call order
  last,           \* history: the last operation, its arguments and the state before it
  db,             \* the SQLite connection: its tables and its open transaction (Null when not opened)
  cache,          \* the timer-state cache of services/cache (Null when not used)
  saves,          \* the persistCurrentSession calls of this process and how far each has got
  display         \* what the exam screen's formatting functions were last given and returned

vars == <<activeSession, timerState, monoNow, epochNow, nextId, dpCalls, last,
          db, cache, saves, display>>

----------------------------------------------------------------------------
(* Bounds of the model *)

MaxTicks == 3     \* clock readings 0, TickMs, .., MaxTicks * TickMs
MaxOps == 3       \* effective engine operations per session (Spec)
AppMaxOps == 2    \* effective engine operations per session (AppSpec)
MaxDesks == 2     \* desks per session
MaxIds == 5       \* ids generateId hands out
TickMs == 60000   \* clock step

\* inputs of the session form and of the D.P. field (whole minutes, validated)
ExamDurations == {2}
ReadingTimes == {0, 1}
StartTimes == {600000}
DpDeltas == {1, 2}

----------------------------------------------------------------------------
(* Values *)

\* `undefined` for an optional number, and a present number
None == <<>>
Some(x) == <<x>>

\* a ?? b
OrElse(opt, dflt) == IF opt = None THEN dflt ELSE opt[1]

\* !x for x : number | undefined  (undefined and 0 are falsy)
Falsy(opt) == opt = None \/ opt[1] = 0

\* the store's null
Null == [null |-> TRUE]

Max(a, b) == IF a >= b THEN a ELSE b

MsPerMinute == 60 * 1000

----------------------------------------------------------------------------
(* utils: createDesk, createSession *)

createDesk(deskNumber, id) ==
  [ id |-> id,
    deskNumber |-> deskNumber,
    studentName |-> None,
    dpTimeTakenMinutes |-> 0,
    adjustedFinishEpochMs |-> 0,
    events |-> <<>> ]

\* generateId is called once per desk, then once for the session
createSession(examDurationMinutes, readingTimeMinutes, startTimeEpochMs, deskCount, ids) ==
  [ id |-> ids + deskCount + 1,
    examDurationMinutes |-> examDurationMinutes,
    readingTimeMinutes |-> readingTimeMinutes,
    startTimeEpochMs |-> startTimeEpochMs,
    desks |-> [i \in 1..deskCount |-> createDesk(i, ids + i)] ]

----------------------------------------------------------------------------
(* timer-engine: calculations *)

\* mutant: the elapsed time keeps running during a pause
AdjustedElapsedMs_RunsWhilePaused(ts, currentMonotonicMs) ==
  currentMonotonicMs - ts.monotonicStartMs - ts.pausedDurationMs

\* elapsed monotonic time, frozen at the pause instant while paused, less the
\* accumulated pause time
AdjustedElapsedMs(ts, currentMonotonicMs) ==
  LET elapsedMonotonicMs ==
        IF ts.isPaused
        THEN OrElse(ts.pausedAtMonotonicMs, currentMonotonicMs) - ts.monotonicStartMs
        ELSE currentMonotonicMs - ts.monotonicStartMs
  IN  elapsedMonotonicMs - ts.pausedDurationMs

\* mutant: the floor at zero forgotten
calculateGeneralRemainingMs_NoFloor(session, ts, currentMonotonicMs) ==
  IF ts.phase = "pre_exam"
  THEN session.examDurationMinutes * 60 * 1000
  ELSE session.examDurationMinutes * 60 * 1000 - AdjustedElapsedMs(ts, currentMonotonicMs)

\* mutant: the general countdown frozen during reading time
calculateGeneralRemainingMs_FrozenInReading(session, ts, currentMonotonicMs) ==
  IF ts.phase = "pre_exam" \/ ts.phase = "reading_time"
  THEN session.examDurationMinutes * 60 * 1000
  ELSE LET baseExamMs == session.examDurationMinutes * 60 * 1000
           remainingMs == baseExamMs - AdjustedElapsedMs(ts, currentMonotonicMs)
       IN  Max(0, remainingMs)

calculateGeneralRemainingMs(session, ts, currentMonotonicMs) ==
  IF ts.phase = "pre_exam"
  THEN session.examDurationMinutes * 60 * 1000
  ELSE LET baseExamMs == session.examDurationMinutes * 60 * 1000
           remainingMs == baseExamMs - AdjustedElapsedMs(ts, currentMonotonicMs)
       IN  Max(0, remainingMs)

\* mutant: the phase check forgotten
calculateReadingRemainingMs_AnyPhase(session, ts, currentMonotonicMs) ==
  LET readingTimeMs == session.readingTimeMinutes * 60 * 1000
      remainingMs == readingTimeMs - AdjustedElapsedMs(ts, currentMonotonicMs)
  IN  Max(0, remainingMs)

calculateReadingRemainingMs(session, ts, currentMonotonicMs) ==
  IF ts.phase # "reading_time"
  THEN 0
  ELSE LET readingTimeMs == session.readingTimeMinutes * 60 * 1000
           remainingMs == readingTimeMs - AdjustedElapsedMs(ts, currentMonotonicMs)
       IN  Max(0, remainingMs)

\* mutant: the running desk countdown leaves the D.P. time out
calculateDeskRemainingMs_WithoutDp(session, desk, ts, currentMonotonicMs) ==
  IF ts.phase = "pre_exam" \/ ts.phase = "reading_time"
  THEN (session.examDurationMinutes + desk.dpTimeTakenMinutes) * 60 * 1000
  ELSE LET baseExamMs == session.examDurationMinutes * 60 * 1000
           remainingMs == baseExamMs - AdjustedElapsedMs(ts, currentMonotonicMs)
       IN  Max(0, remainingMs)

\* mutant: the desk countdown runs during reading time
calculateDeskRemainingMs_RunsInReading(session, desk, ts, currentMonotonicMs) ==
  IF ts.phase = "pre_exam"
  THEN (session.examDurationMinutes + desk.dpTimeTakenMinutes) * 60 * 1000
  ELSE LET baseExamMs == session.examDurationMinutes * 60 * 1000
           totalDpMs == desk.dpTimeTakenMinutes * 60 * 1000
           remainingMs == baseExamMs + totalDpMs - AdjustedElapsedMs(ts, currentMonotonicMs)
       IN  Max(0, remainingMs)

calculateDeskRemainingMs(session, desk, ts, currentMonotonicMs) ==
  IF ts.phase = "pre_exam" \/ ts.phase = "reading_time"
  THEN (session.examDurationMinutes + desk.dpTimeTakenMinutes) * 60 * 1000
  ELSE LET baseExamMs == session.examDurationMinutes * 60 * 1000
           totalDpMs == desk.dpTimeTakenMinutes * 60 * 1000
           remainingMs == baseExamMs + totalDpMs - AdjustedElapsedMs(ts, currentMonotonicMs)
       IN  Max(0, remainingMs)

\* mutant: the projected finish moves out by the time spent paused
calculateDeskAdjustedFinishEpochMs_PauseShifted(session, desk, ts) ==
  LET totalDurationMs == (session.examDurationMinutes + desk.dpTimeTakenMinutes) * 60 * 1000
      readingTimeMs == session.readingTimeMinutes * 60 * 1000
  IN  session.startTimeEpochMs + readingTimeMs + totalDurationMs + ts.pausedDurationMs

\* mutant: the projected finish is the baseline finish, whatever D.P. was granted
calculateDeskAdjustedFinishEpochMs_BaselineOnly(session, desk, ts) ==
  LET totalDurationMs == session.examDurationMinutes * 60 * 1000
      readingTimeMs == session.readingTimeMinutes * 60 * 1000
  IN  session.startTimeEpochMs + readingTimeMs + totalDurationMs

calculateDeskAdjustedFinishEpochMs(session, desk, ts) ==
  LET totalDurationMs == (session.examDurationMinutes + desk.dpTimeTakenMinutes) * 60 * 1000
      readingTimeMs == session.readingTimeMinutes * 60 * 1000
  IN  session.startTimeEpochMs + readingTimeMs + totalDurationMs

calculateGeneralFinishEpochMs(session) ==
  LET examDurationMs == session.examDurationMinutes * 60 * 1000
      readingTimeMs == session.readingTimeMinutes * 60 * 1000
  IN  session.startTimeEpochMs + readingTimeMs + examDurationMs

\* the comparator handed to Array.prototype.sort: negative when a goes first
compareDesks(session, ts, a, b) ==
  LET aFinish == calculateDeskAdjustedFinishEpochMs(session, a, ts)
      bFinish == calculateDeskAdjustedFinishEpochMs(session, b, ts)
  IN  IF aFinish # bFinish THEN aFinish - bFinish ELSE a.deskNumber - b.deskNumber

\* [...array].sort(compare): a new array holding the elements in the comparator's
\* order, elements that compare equal in their original order (the sort is
\* stable); compare[i][j] is the comparator's result for array[i], array[j]
SortedCopy(array, compare) ==
  LET n == Len(array)
      \* the place of array[i] in the result: one more than the number of
      \* elements that go before it
      Ranks == { [i \in 1..n |->
                    1 + Cardinality({j \in 1..n : \/ c[j][i] < 0
                                                  \/ /\ ~(c[i][j] < 0)
                                                     /\ j < i})] : c \in {compare} }
  IN  CHOOSE sorted \in
        { [k \in 1..n |-> array[CHOOSE i \in 1..n : rank[i] = k]] : rank \in Ranks } : TRUE

\* mutant: the stored finish time is compared instead of a fresh one
sortDesks_StoredFinish(session, ts) ==
  SortedCopy(session.desks,
             [i \in DOMAIN session.desks |-> [j \in DOMAIN session.desks |->
                LET a == session.desks[i]
                    b == session.desks[j]
                IN  IF a.adjustedFinishEpochMs # b.adjustedFinishEpochMs
                    THEN a.adjustedFinishEpochMs - b.adjustedFinishEpochMs
                    ELSE a.deskNumber - b.deskNumber]])

sortDesks(session, ts) ==
  SortedCopy(session.desks,
             [i \in DOMAIN session.desks |-> [j \in DOMAIN session.desks |->
                compareDesks(session, ts, session.desks[i], session.desks[j])]])

----------------------------------------------------------------------------
(* timer-engine: transitions *)

TimerEvent(type, timestamp, valueMinutes) ==
  [type |-> type, timestamp |-> timestamp, valueMinutes |-> valueMinutes]

\* mutant: the event reaches the first desk only
AppendToAllDesks_FirstDeskOnly(session, event) ==
  [session EXCEPT !.desks =
     [i \in DOMAIN session.desks |->
        IF i = 1 THEN [session.desks[i] EXCEPT !.events = Append(@, event)]
        ELSE session.desks[i]]]

\* session.desks.map(desk => ({...desk, events: [...desk.events, event]}))
AppendToAllDesks(session, event) ==
  [session EXCEPT !.desks =
     [i \in DOMAIN session.desks |->
        [session.desks[i] EXCEPT !.events = Append(@, event)]]]

\* mutant: the engine refreshes the stored finish time itself
applyDPTime_StoresFinish(desk, dpMinutesToAdd, currentEpochMs) ==
  LET newEvent == TimerEvent("dp_applied", currentEpochMs, Some(dpMinutesToAdd))
  IN  [desk EXCEPT !.dpTimeTakenMinutes = desk.dpTimeTakenMinutes + dpMinutesToAdd,
                   !.adjustedFinishEpochMs = desk.adjustedFinishEpochMs
                                               + dpMinutesToAdd * 60 * 1000,
                   !.events = Append(desk.events, newEvent)]

\* mutant: the event records the running total instead of the delta
applyDPTime_RunningTotal(desk, dpMinutesToAdd, currentEpochMs) ==
  LET newEvent == TimerEvent("dp_applied", currentEpochMs,
                             Some(desk.dpTimeTakenMinutes + dpMinutesToAdd))
  IN  [desk EXCEPT !.dpTimeTakenMinutes = desk.dpTimeTakenMinutes + dpMinutesToAdd,
                   !.events = Append(desk.events, newEvent)]

applyDPTime(desk, dpMinutesToAdd, currentEpochMs) ==
  LET newEvent == TimerEvent("dp_applied", currentEpochMs, Some(dpMinutesToAdd))
  IN  [desk EXCEPT !.dpTimeTakenMinutes = desk.dpTimeTakenMinutes + dpMinutesToAdd,
                   !.events = Append(desk.events, newEvent)]

\* mutant: the reading phase is entered whatever the reading time
activateExamStart_AlwaysReading(session, currentEpochMs, currentMonotonicMs) ==
  LET startEvent == TimerEvent("reading_start", currentEpochMs, None)
  IN  [ session |-> AppendToAllDesks(session, startEvent),
        timerState |->
          [ phase |-> "reading_time",
            isPaused |-> FALSE,
            monotonicStartMs |-> currentMonotonicMs,
            pausedAtMonotonicMs |-> None,
            pausedDurationMs |-> 0 ] ]

activateExamStart(session, currentEpochMs, currentMonotonicMs) ==
  LET hasReadingTime == session.readingTimeMinutes > 0
      startEvent == TimerEvent(IF hasReadingTime THEN "reading_start" ELSE "exam_active",
                               currentEpochMs, None)
  IN  [ session |-> AppendToAllDesks(session, startEvent),
        timerState |->
          [ phase |-> IF hasReadingTime THEN "reading_time" ELSE "exam_active",
            isPaused |-> FALSE,
            monotonicStartMs |-> currentMonotonicMs,
            pausedAtMonotonicMs |-> None,
            pausedDurationMs |-> 0 ] ]

\* mutant: the exam phase goes on counting from the start of the reading time
transitionToExamActive_KeepsStart(session, ts, currentEpochMs, currentMonotonicMs) ==
  LET examActiveEvent == TimerEvent("exam_active", currentEpochMs, None)
  IN  [ session |-> AppendToAllDesks(session, examActiveEvent),
        timerState |-> [ts EXCEPT !.phase = "exam_active"] ]

transitionToExamActive(session, ts, currentEpochMs, currentMonotonicMs) ==
  LET examActiveEvent == TimerEvent("exam_active", currentEpochMs, None)
  IN  [ session |-> AppendToAllDesks(session, examActiveEvent),
        timerState |-> [ts EXCEPT !.phase = "exam_active",
                                  !.monotonicStartMs = currentMonotonicMs,
                                  !.pausedDurationMs = 0] ]

\* mutant: the already-paused check forgotten
pauseTimers_NoGuard(session, ts, currentEpochMs, currentMonotonicMs) ==
  LET pauseEvent == TimerEvent("pause", currentEpochMs, None)
  IN  [ session |-> AppendToAllDesks(session, pauseEvent),
        timerState |-> [ts EXCEPT !.isPaused = TRUE,
                                  !.pausedAtMonotonicMs = Some(currentMonotonicMs)] ]

pauseTimers(session, ts, currentEpochMs, currentMonotonicMs) ==
  IF ts.isPaused
  THEN [session |-> session, timerState |-> ts]
  ELSE LET pauseEvent == TimerEvent("pause", currentEpochMs, None)
       IN  [ session |-> AppendToAllDesks(session, pauseEvent),
             timerState |-> [ts EXCEPT !.isPaused = TRUE,
                                       !.pausedAtMonotonicMs = Some(currentMonotonicMs)] ]

\* mutant: the resume moves the zero-point forward instead of accumulating the pause
resumeTimers_ShiftStart(session, ts, currentEpochMs, currentMonotonicMs) ==
  IF ~ts.isPaused \/ Falsy(ts.pausedAtMonotonicMs)
  THEN [session |-> session, timerState |-> ts]
  ELSE LET resumeEvent == TimerEvent("resume", currentEpochMs, None)
           pauseDuration == currentMonotonicMs - ts.pausedAtMonotonicMs[1]
       IN  [ session |-> AppendToAllDesks(session, resumeEvent),
             timerState |-> [ts EXCEPT !.isPaused = FALSE,
                                       !.pausedAtMonotonicMs = None,
                                       !.monotonicStartMs = ts.monotonicStartMs + pauseDuration] ]

resumeTimers(session, ts, currentEpochMs, currentMonotonicMs) ==
  IF ~ts.isPaused \/ Falsy(ts.pausedAtMonotonicMs)
  THEN [session |-> session, timerState |-> ts]
  ELSE LET resumeEvent == TimerEvent("resume", currentEpochMs, None)
           pauseDuration == currentMonotonicMs - ts.pausedAtMonotonicMs[1]
       IN  [ session |-> AppendToAllDesks(session, resumeEvent),
             timerState |-> [ts EXCEPT !.isPaused = FALSE,
                                       !.pausedAtMonotonicMs = None,
                                       !.pausedDurationMs = ts.pausedDurationMs + pauseDuration] ]

----------------------------------------------------------------------------
(* exam screen: the timer state used when the store holds none *)

PreExamTimerState ==
  [ phase |-> "pre_exam",
    isPaused |-> FALSE,
    monotonicStartMs |-> 0,
    pausedAtMonotonicMs |-> None,
    pausedDurationMs |-> 0 ]

----------------------------------------------------------------------------
(* History *)

Op(op, desk, dp) ==
  [ op |-> op, desk |-> desk, dp |-> dp,
    session |-> activeSession, timerState |-> timerState,
    mono |-> monoNow, epoch |-> epochNow ]

IsDpEvent(ev) == ev.type = "dp_applied"
IsSessionEvent(ev) == ev.type # "dp_applied"

RECURSIVE DpEventCount(_, _)
DpEventCount(desks, n) ==
  IF n = 0 THEN 0
  ELSE Len(SelectSeq(desks[n].events, IsDpEvent)) + DpEventCount(desks, n - 1)

\* the number of effective engine operations the session's audit trail records
OpsDone(session) ==
  Len(SelectSeq(session.desks[1].events, IsSessionEvent))
    + DpEventCount(session.desks, Len(session.desks))

\* room left for one more operation (bound of the model)
Room(session) == OpsDone(session) < MaxOps
AppRoom(session) == OpsDone(session) < AppMaxOps

----------------------------------------------------------------------------
(* Spec: the engine called as a library *)

Init ==
  \E e \in ExamDurations, r \in ReadingTimes, s \in StartTimes, n \in 1..MaxDesks :
    /\ activeSession = createSession(e, r, s, n, 0)
    /\ timerState = PreExamTimerState
    /\ monoNow = 0
    /\ epochNow = s
    /\ nextId = n + 1
    /\ dpCalls = [i \in 1..n |-> <<>>]
    /\ last = [ op |-> "init", desk |-> 0, dp |-> 0,
                session |-> createSession(e, r, s, n, 0),
                timerState |-> PreExamTimerState, mono |-> 0, epoch |-> s ]
    /\ db = Null
    /\ cache = Null
    /\ saves = <<>>
    /\ display = Null

\* time passes on both clocks
Tick ==
  /\ monoNow < MaxTicks * TickMs
  /\ monoNow' = monoNow + TickMs
  /\ epochNow' = epochNow + TickMs
  /\ last' = Op("tick", 0, 0)
  /\ UNCHANGED <<activeSession, timerState, nextId, dpCalls>>
  /\ UNCHANGED <<db, cache, saves, display>>

EngineActivateExamStart ==
  /\ Room(activeSession)
  /\ LET r == activateExamStart(activeSession, epochNow, monoNow)
     IN  /\ activeSession' = r.session
         /\ timerState' = r.timerState
  /\ last' = Op("activateExamStart", 0, 0)
  /\ UNCHANGED <<monoNow, epochNow, nextId, dpCalls>>
  /\ UNCHANGED <<db, cache, saves, display>>

EngineTransitionToExamActive ==
  /\ Room(activeSession)
  /\ LET r == transitionToExamActive(activeSession, timerState, epochNow, monoNow)
     IN  /\ activeSession' = r.session
         /\ timerState' = r.timerState
  /\ last' = Op("transitionToExamActive", 0, 0)
  /\ UNCHANGED <<monoNow, epochNow, nextId, dpCalls>>
  /\ UNCHANGED <<db, cache, saves, display>>

EnginePauseTimers ==
  /\ Room(activeSession)
  /\ LET r == pauseTimers(activeSession, timerState, epochNow, monoNow)
     IN  /\ activeSession' = r.session
         /\ timerState' = r.timerState
  /\ last' = Op("pauseTimers", 0, 0)
  /\ UNCHANGED <<monoNow, epochNow, nextId, dpCalls>>
  /\ UNCHANGED <<db, cache, saves, display>>

EngineResumeTimers ==
  /\ Room(activeSession)
  /\ LET r == resumeTimers(activeSession, timerState, epochNow, monoNow)
     IN  /\ activeSession' = r.session
         /\ timerState' = r.timerState
  /\ last' = Op("resumeTimers", 0, 0)
  /\ UNCHANGED <<monoNow, epochNow, nextId, dpCalls>>
  /\ UNCHANGED <<db, cache, saves, display>>

\* the caller replaces the desk by the engine's result
EngineApplyDPTime ==
  \E i \in DOMAIN activeSession.desks, d \in DpDeltas :
    /\ Room(activeSession)
    /\ activeSession' = [activeSession EXCEPT !.desks[i] = applyDPTime(@, d, epochNow)]
    /\ dpCalls' = [dpCalls EXCEPT ![i] = Append(@, d)]
    /\ last' = Op("applyDPTime", i, d)
    /\ UNCHANGED <<timerState, monoNow, epochNow, nextId>>
    /\ UNCHANGED <<db, cache, saves, display>>

Next ==
  \/ Tick
  \/ EngineActivateExamStart
  \/ EngineTransitionToExamActive
  \/ EnginePauseTimers
  \/ EngineResumeTimers
  \/ EngineApplyDPTime

Spec == Init /\ [][Next]_vars

----------------------------------------------------------------------------
(* UncheckedSpec: the engine called as a library by a caller that does not     *)
(* validate the D.P. minutes (the store's applyDeskDP passes its argument on). *)

\* D.P. minutes a validating caller would have refused
NonPositiveDeltas == {-1, 0}

EngineApplyDPTimeUnchecked ==
  \E i \in DOMAIN activeSession.desks, d \in NonPositiveDeltas :
    /\ Room(activeSession)
    /\ activeSession' = [activeSession EXCEPT !.desks[i] = applyDPTime(@, d, epochNow)]
    /\ dpCalls' = [dpCalls EXCEPT ![i] = Append(@, d)]
    /\ last' = Op("applyDPTime", i, d)
    /\ UNCHANGED <<timerState, monoNow, epochNow, nextId>>
    /\ UNCHANGED <<db, cache, saves, display>>

UncheckedNext ==
  \/ Next
  \/ EngineApplyDPTimeUnchecked

UncheckedSpec == Init /\ [][UncheckedNext]_vars

----------------------------------------------------------------------------
(* AppSpec: the session screen and the store *)

AppInit ==
  /\ activeSession = Null
  /\ timerState = Null
  /\ monoNow = TickMs
  /\ epochNow \in StartTimes
  /\ nextId = 0
  /\ dpCalls = <<>>
  /\ last = [ op |-> "init", desk |-> 0, dp |-> 0,
              session |-> Null, timerState |-> Null,
              mono |-> TickMs, epoch |-> epochNow ]
  /\ db = Null
  /\ cache = Null
  /\ saves = <<>>
  /\ display = Null

\* store.createSession: the session becomes the active one; timerState is not touched
StoreCreateSession(session) ==
  /\ activeSession' = session
  /\ dpCalls' = [i \in DOMAIN session.desks |-> <<>>]
  /\ UNCHANGED timerState

\* handleSave on the "new" route: a session built from the validated form
HandleSaveNew ==
  \E e \in ExamDurations, r \in ReadingTimes, s \in StartTimes, n \in 1..MaxDesks :
    /\ nextId + n + 1 <= MaxIds
    /\ StoreCreateSession(createSession(e, r, s, n, nextId))
    /\ nextId' = nextId + n + 1
    /\ last' = Op("handleSaveNew", 0, 0)
    /\ UNCHANGED <<monoNow, epochNow>>
    /\ UNCHANGED <<db, cache, saves, display>>

\* handleSave on the edit route: a session built from the form, with the existing
\* session's id and, index by index, the existing desks' ids
EditedSession(existingSession, created) ==
  [created EXCEPT
     !.id = existingSession.id,
     !.desks = [i \in DOMAIN created.desks |->
                  [created.desks[i] EXCEPT
                     !.id = IF i \in DOMAIN existingSession.desks
                            THEN existingSession.desks[i].id
                            ELSE @]]]

HandleSaveEdit ==
  \E e \in ExamDurations, r \in ReadingTimes, s \in StartTimes, n \in 1..MaxDesks :
    /\ activeSession # Null
    /\ nextId + n + 1 <= MaxIds
    /\ StoreCreateSession(EditedSession(activeSession, createSession(e, r, s, n, nextId)))
    /\ nextId' = nextId + n + 1
    /\ last' = Op("handleSaveEdit", 0, 0)
    /\ UNCHANGED <<monoNow, epochNow>>
    /\ UNCHANGED <<db, cache, saves, display>>

StoreActivateExam ==
  /\ activeSession # Null
  /\ AppRoom(activeSession)
  /\ LET r == activateExamStart(activeSession, epochNow, monoNow)
     IN  /\ activeSession' = r.session
         /\ timerState' = r.timerState
  /\ last' = Op("activateExam", 0, 0)
  /\ UNCHANGED <<monoNow, epochNow, nextId, dpCalls>>
  /\ UNCHANGED <<db, cache, saves, display>>

\* the desk found by id is replaced by the engine's result with its finish time recomputed
StoreApplyDeskDP ==
  \E i \in (IF activeSession = Null THEN {} ELSE DOMAIN activeSession.desks), d \in DpDeltas :
    /\ timerState # Null
    /\ AppRoom(activeSession)
    /\ LET deskId == activeSession.desks[i].id
           applied == applyDPTime(activeSession.desks[i], d, epochNow)
           updatedDesk == [applied EXCEPT !.adjustedFinishEpochMs =
                             calculateDeskAdjustedFinishEpochMs(activeSession, applied, timerState)]
       IN  activeSession' =
             [activeSession EXCEPT !.desks =
                [j \in DOMAIN activeSession.desks |->
                   IF activeSession.desks[j].id = deskId THEN updatedDesk
                   ELSE activeSession.desks[j]]]
    /\ dpCalls' = [dpCalls EXCEPT ![i] = Append(@, d)]
    /\ last' = Op("applyDeskDP", i, d)
    /\ UNCHANGED <<timerState, monoNow, epochNow, nextId>>
    /\ UNCHANGED <<db, cache, saves, display>>

StorePauseExam ==
  /\ activeSession # Null
  /\ timerState # Null
  /\ AppRoom(activeSession)
  /\ LET r == pauseTimers(activeSession, timerState, epochNow, monoNow)
     IN  /\ activeSession' = r.session
         /\ timerState' = r.timerState
  /\ last' = Op("pauseExam", 0, 0)
  /\ UNCHANGED <<monoNow, epochNow, nextId, dpCalls>>
  /\ UNCHANGED <<db, cache, saves, display>>

StoreResumeExam ==
  /\ activeSession # Null
  /\ timerState # Null
  /\ AppRoom(activeSession)
  /\ LET r == resumeTimers(activeSession, timerState, epochNow, monoNow)
     IN  /\ activeSession' = r.session
         /\ timerState' = r.timerState
  /\ last' = Op("resumeExam", 0, 0)
  /\ UNCHANGED <<monoNow, epochNow, nextId, dpCalls>>
  /\ UNCHANGED <<db, cache, saves, display>>

StoreTransitionToExam ==
  /\ activeSession # Null
  /\ timerState # Null
  /\ AppRoom(activeSession)
  /\ LET r == transitionToExamActive(activeSession, timerState, epochNow, monoNow)
     IN  /\ activeSession' = r.session
         /\ timerState' = r.timerState
  /\ last' = Op("transitionToExam", 0, 0)
  /\ UNCHANGED <<monoNow, epochNow, nextId, dpCalls>>
  /\ UNCHANGED <<db, cache, saves, display>>

AppNext ==
  \/ Tick
  \/ HandleSaveNew
  \/ HandleSaveEdit
  \/ StoreActivateExam
  \/ StoreApplyDeskDP
  \/ StorePauseExam
  \/ StoreResumeExam
  \/ StoreTransitionToExam

AppSpec == AppInit /\ [][AppNext]_vars

----------------------------------------------------------------------------
(* ScreenSpec: the exam screen driving the store. The screen offers Activate   *)
(* only before the exam, the D.P. and Pause/Resume controls only after         *)
(* activation, and its effect moves reading time on to the exam. The writes    *)
(* to the record store that the store's actions start are left to PersistSpec. *)

ScreenMaxOps == 3   \* audit events after which the screen's user pauses or grants no more

\* const effectiveTimerState = timerState ?? {phase: 'pre_exam', ...}
EffectiveTimerState == IF timerState = Null THEN PreExamTimerState ELSE timerState

ScreenRoom == OpsDone(activeSession) < ScreenMaxOps

\* a countdown is running that has not reached zero: time is still of interest
CountdownRunning ==
  /\ timerState # Null
  /\ ~timerState.isPaused
  /\ \/ /\ timerState.phase = "reading_time"
        /\ calculateReadingRemainingMs(activeSession, timerState, monoNow) > 0
     \/ /\ timerState.phase = "exam_active"
        /\ \E i \in DOMAIN activeSession.desks :
             calculateDeskRemainingMs(activeSession, activeSession.desks[i],
                                      timerState, monoNow) > 0

ScreenInit ==
  \E e \in ExamDurations, r \in ReadingTimes, s \in StartTimes, n \in 1..MaxDesks :
    /\ activeSession = createSession(e, r, s, n, 0)
    /\ timerState = Null
    /\ monoNow = TickMs
    /\ epochNow = s
    /\ nextId = n + 1
    /\ dpCalls = [i \in 1..n |-> <<>>]
    /\ last = [ op |-> "init", desk |-> 0, dp |-> 0,
                session |-> createSession(e, r, s, n, 0),
                timerState |-> Null, mono |-> TickMs, epoch |-> s ]
    /\ db = Null
    /\ cache = Null
    /\ saves = <<>>
    /\ display = Null

\* the interval's setCurrentTime: a second (here a clock step) has passed
ScreenTick ==
  /\ monoNow < MaxTicks * TickMs \/ CountdownRunning
  /\ monoNow' = monoNow + TickMs
  /\ epochNow' = epochNow + TickMs
  /\ last' = Op("tick", 0, 0)
  /\ UNCHANGED <<activeSession, timerState, nextId, dpCalls, db, cache, saves, display>>

\* the Activate button, rendered while isPreExam
HandleActivate ==
  /\ EffectiveTimerState.phase = "pre_exam"
  /\ LET r == activateExamStart(activeSession, epochNow, monoNow)
     IN  /\ activeSession' = r.session
         /\ timerState' = r.timerState
  /\ last' = Op("activateExam", 0, 0)
  /\ UNCHANGED <<monoNow, epochNow, nextId, dpCalls, db, cache, saves, display>>

\* a desk's D.P. button, rendered while not isPreExam; the input is validated
HandleApplyDP(deltas) ==
  \E i \in DOMAIN activeSession.desks, d \in deltas :
    /\ EffectiveTimerState.phase # "pre_exam"
    /\ timerState # Null
    /\ ScreenRoom
    /\ d > 0
    /\ LET deskId == activeSession.desks[i].id
           applied == applyDPTime(activeSession.desks[i], d, epochNow)
           updatedDesk == [applied EXCEPT !.adjustedFinishEpochMs =
                             calculateDeskAdjustedFinishEpochMs(activeSession, applied, timerState)]
       IN  activeSession' =
             [activeSession EXCEPT !.desks =
                [j \in DOMAIN activeSession.desks |->
                   IF activeSession.desks[j].id = deskId THEN updatedDesk
                   ELSE activeSession.desks[j]]]
    /\ dpCalls' = [dpCalls EXCEPT ![i] = Append(@, d)]
    /\ last' = Op("applyDeskDP", i, d)
    /\ UNCHANGED <<timerState, monoNow, epochNow, nextId, db, cache, saves, display>>

\* the Pause All / Resume button, rendered while not isPreExam
HandlePauseResume ==
  /\ EffectiveTimerState.phase # "pre_exam"
  /\ timerState # Null
  /\ IF EffectiveTimerState.isPaused
     THEN LET r == resumeTimers(activeSession, timerState, epochNow, monoNow)
          IN  /\ activeSession' = r.session
              /\ timerState' = r.timerState
              /\ last' = Op("resumeExam", 0, 0)
     ELSE LET r == pauseTimers(activeSession, timerState, epochNow, monoNow)
          IN  /\ ScreenRoom
              /\ activeSession' = r.session
              /\ timerState' = r.timerState
              /\ last' = Op("pauseExam", 0, 0)
  /\ UNCHANGED <<monoNow, epochNow, nextId, dpCalls, db, cache, saves, display>>

\* mutant: the effect moves on as soon as the reading phase is entered
ReadingTimeOver_AnyTime(session, ts, currentMonotonicMs) ==
  ts.phase = "reading_time"

\* the effect's condition for calling transitionToExam
ReadingTimeOver(session, ts, currentMonotonicMs) ==
  /\ ts.phase = "reading_time"
  /\ calculateReadingRemainingMs(session, ts, currentMonotonicMs) <= 0

\* the auto-transition effect, run after a render
AutoTransition ==
  /\ activeSession # Null
  /\ timerState # Null
  /\ ReadingTimeOver(activeSession, timerState, monoNow)
  /\ LET r == transitionToExamActive(activeSession, timerState, epochNow, monoNow)
     IN  /\ activeSession' = r.session
         /\ timerState' = r.timerState
  /\ last' = Op("transitionToExam", 0, 0)
  /\ UNCHANGED <<monoNow, epochNow, nextId, dpCalls, db, cache, saves, display>>

ScreenNext ==
  \/ ScreenTick
  \/ HandleActivate
  \/ HandleApplyDP(DpDeltas)
  \/ HandlePauseResume
  \/ AutoTransition

\* the interval keeps firing and the effect runs after every render
ScreenSpec ==
  /\ ScreenInit
  /\ [][ScreenNext]_vars
  /\ WF_vars(ScreenTick)
  /\ WF_vars(AutoTransition)

----------------------------------------------------------------------------
(* ScenarioSpec: the exam screen run on the worked example, a 90 minute exam   *)
(* with 10 minutes of reading time and grants of 30 minutes, without pauses.   *)

ScenarioExamDurations == {90}
ScenarioReadingTimes == {10}
ScenarioDpDeltas == {30}
ScenarioClocks == {1000, 250000}

ScenarioInit ==
  \E e \in ScenarioExamDurations, r \in ScenarioReadingTimes, s \in StartTimes,
     n \in 1..MaxDesks, m \in ScenarioClocks :
    /\ activeSession = createSession(e, r, s, n, 0)
    /\ timerState = Null
    /\ monoNow = m
    /\ epochNow = s
    /\ nextId = n + 1
    /\ dpCalls = [i \in 1..n |-> <<>>]
    /\ last = [ op |-> "init", desk |-> 0, dp |-> 0,
                session |-> createSession(e, r, s, n, 0),
                timerState |-> Null, mono |-> m, epoch |-> s ]
    /\ db = Null
    /\ cache = Null
    /\ saves = <<>>
    /\ display = Null

\* the interval's setCurrentTime; the clocks move by the reading time or half of it
ScenarioTick ==
  /\ monoNow < (MaxTicks + 1) * activeSession.readingTimeMinutes * MsPerMinute
  /\ \E step \in {activeSession.readingTimeMinutes * MsPerMinute,
                  (activeSession.readingTimeMinutes * MsPerMinute) \div 2} :
       /\ monoNow' = monoNow + step
       /\ epochNow' = epochNow + step
  /\ last' = Op("tick", 0, 0)
  /\ UNCHANGED <<activeSession, timerState, nextId, dpCalls, db, cache, saves, display>>

ScenarioNext ==
  \/ ScenarioTick
  \/ HandleActivate
  \/ HandleApplyDP(ScenarioDpDeltas)
  \/ AutoTransition

ScenarioSpec == ScenarioInit /\ [][ScenarioNext]_vars

----------------------------------------------------------------------------
(* PersistSpec: the store with its record store and its timer-state cache.     *)
(* Every timer action of the store starts persistCurrentSession without        *)
(* awaiting it; saveSession then runs statement by statement on the one        *)
(* database connection, between the statements of any other save and around    *)
(* any load. withTransactionAsync is BEGIN, the task, COMMIT, and on an error  *)
(* ROLLBACK and rethrow; it is not exclusive. PRAGMA foreign_keys is never     *)
(* set, so whether ON DELETE CASCADE fires is the SQLite build's default, and  *)
(* the cache is the in-memory or the MMKV implementation: both are properties  *)
(* of the build, chosen in the initial state.                                  *)

PersistMaxOps == 2     \* audit events after which the store's actions stop
PersistMaxSaves == 2   \* persists started since the process came up

\* a nullable column holds NULL or a value
SqlNull == <<>>
SqlValue(x) == <<x>>

\* the sessions row written by the upsert
SessionRow(session) ==
  [ id |-> session.id,
    exam_duration_minutes |-> session.examDurationMinutes,
    reading_time_minutes |-> session.readingTimeMinutes,
    start_time_epoch_ms |-> session.startTimeEpochMs ]

\* the desks row written for a desk
DeskRow(session, desk) ==
  [ id |-> desk.id,
    session_id |-> session.id,
    desk_number |-> desk.deskNumber,
    student_name |-> IF desk.studentName = None THEN SqlNull
                    ELSE SqlValue(desk.studentName[1]),
    dp_time_taken_minutes |-> desk.dpTimeTakenMinutes,
    adjusted_finish_epoch_ms |-> desk.adjustedFinishEpochMs ]

\* the timer_events row written for an event; the rowid is the row's position
EventRow(desk, event) ==
  [ desk_id |-> desk.id,
    type |-> event.type,
    timestamp |-> event.timestamp,
    value_minutes |-> IF event.valueMinutes = None THEN SqlNull
                     ELSE SqlValue(event.valueMinutes[1]) ]

\* the tables' content, as kept by the rollback journal
Tables(database) ==
  [ sessions |-> database.sessions, desks |-> database.desks,
    timer_events |-> database.timer_events ]

\* SELECT ... FROM timer_events WHERE desk_id = ? ORDER BY timestamp ASC; the
\* order of rows with equal timestamps is not specified: here rowid order or
\* its reverse
SelectEvents(database, deskId, tiesReversed) ==
  LET rows == SelectSeq(database.timer_events, LAMBDA row : row.desk_id = deskId)
      compare == [i \in DOMAIN rows |-> [j \in DOMAIN rows |->
                    IF rows[i].timestamp # rows[j].timestamp
                    THEN rows[i].timestamp - rows[j].timestamp
                    ELSE IF tiesReversed THEN j - i ELSE i - j]]
  IN  SortedCopy(rows, compare)

\* SELECT * FROM desks WHERE session_id = ? ORDER BY desk_number ASC
SelectDesks(database, sessionId) ==
  LET rows == SelectSeq(database.desks, LAMBDA row : row.session_id = sessionId)
      compare == [i \in DOMAIN rows |-> [j \in DOMAIN rows |->
                    IF rows[i].desk_number # rows[j].desk_number
                    THEN rows[i].desk_number - rows[j].desk_number
                    ELSE i - j]]
  IN  SortedCopy(rows, compare)

\* the session loadSession builds from the rows the connection sees
loadSession(database, tiesReversed) ==
  LET sessionRow == database.sessions[1]
      deskRows == SelectDesks(database, sessionRow.id)
  IN  [ id |-> sessionRow.id,
        examDurationMinutes |-> sessionRow.exam_duration_minutes,
        readingTimeMinutes |-> sessionRow.reading_time_minutes,
        startTimeEpochMs |-> sessionRow.start_time_epoch_ms,
        desks |->
          [d \in DOMAIN deskRows |->
             LET eventRows == SelectEvents(database, deskRows[d].id, tiesReversed)
             IN  [ id |-> deskRows[d].id,
                   deskNumber |-> deskRows[d].desk_number,
                   studentName |-> IF deskRows[d].student_name = SqlNull THEN None
                                   ELSE Some(deskRows[d].student_name[1]),
                   dpTimeTakenMinutes |-> deskRows[d].dp_time_taken_minutes,
                   adjustedFinishEpochMs |-> deskRows[d].adjusted_finish_epoch_ms,
                   events |->
                     [k \in DOMAIN eventRows |->
                        TimerEvent(eventRows[k].type, eventRows[k].timestamp,
                                   IF eventRows[k].value_minutes = SqlNull THEN None
                                   ELSE Some(eventRows[k].value_minutes[1]))] ]] ]

\* {...timerState, wallClockSaveTime: Date.now()}
CachedTimerState(ts, wallClockSaveTime) ==
  [ phase |-> ts.phase,
    isPaused |-> ts.isPaused,
    monotonicStartMs |-> ts.monotonicStartMs,
    pausedAtMonotonicMs |-> ts.pausedAtMonotonicMs,
    pausedDurationMs |-> ts.pausedDurationMs,
    wallClockSaveTime |-> wallClockSaveTime ]

\* the timer state loadSessionById builds from the cached one
RestoredTimerState(cachedState) ==
  [ phase |-> cachedState.phase,
    isPaused |-> cachedState.isPaused,
    monotonicStartMs |-> cachedState.monotonicStartMs,
    pausedAtMonotonicMs |-> cachedState.pausedAtMonotonicMs,
    pausedDurationMs |-> cachedState.pausedDurationMs ]

\* the promise of a persistCurrentSession call: what it captured and where its
\* saveSession stands ("fulfilled" and "rejected" are its final states)
Persist(session, ts) ==
  [ session |-> session, timerState |-> ts, pc |-> "begin", desk |-> 0, event |-> 0 ]

Pending(save) == save.pc \notin {"fulfilled", "rejected"}

\* the statement that follows the insert of event j of desk i (j = 0: of the desk row)
AfterInsert(save, i, j) ==
  IF j < Len(save.session.desks[i].events)
  THEN [save EXCEPT !.pc = "event", !.desk = i, !.event = j + 1]
  ELSE IF i < Len(save.session.desks)
       THEN [save EXCEPT !.pc = "desk", !.desk = i + 1, !.event = 0]
       ELSE [save EXCEPT !.pc = "commit", !.desk = 0, !.event = 0]

\* the process has not been restarted: both clocks have run in step
FirstRun ==
  /\ activeSession # Null
  /\ monoNow - TickMs = epochNow - activeSession.startTimeEpochMs

\* the model follows the store's actions up to a restart, and bounds them
PersistRoom ==
  /\ FirstRun
  /\ IF activeSession.desks = <<>> THEN TRUE ELSE OpsDone(activeSession) < PersistMaxOps
  /\ Len(saves) < PersistMaxSaves

\* the state after the store's createSession has saved a new session and made it
\* the active one
PersistInit ==
  \E e \in ExamDurations, r \in ReadingTimes, s \in StartTimes, n \in 1..MaxDesks,
     foreignKeys \in BOOLEAN, durable \in BOOLEAN :
    LET session == createSession(e, r, s, n, 0) IN
    /\ activeSession = session
    /\ timerState = Null
    /\ monoNow = TickMs
    /\ epochNow = s
    /\ nextId = n + 1
    /\ dpCalls = [i \in 1..n |-> <<>>]
    /\ last = [ op |-> "init", desk |-> 0, dp |-> 0, session |-> session,
                timerState |-> Null, mono |-> TickMs, epoch |-> s ]
    /\ db = [ foreignKeys |-> foreignKeys,
              sessions |-> <<SessionRow(session)>>,
              desks |-> [i \in 1..n |-> DeskRow(session, session.desks[i])],
              timer_events |-> <<>>,
              undo |-> None ]
    /\ cache = [ durable |-> durable, timerState |-> None ]
    /\ saves = <<>>
    /\ display = Null

PersistTick ==
  /\ FirstRun
  /\ epochNow - activeSession.startTimeEpochMs < TickMs
  /\ monoNow' = monoNow + TickMs
  /\ epochNow' = epochNow + TickMs
  /\ last' = Op("tick", 0, 0)
  /\ UNCHANGED <<activeSession, timerState, nextId, dpCalls, db, cache, saves, display>>

\* set({activeSession, timerState}); get().persistCurrentSession()
SetAndPersist(op, desk, dp, session, ts) ==
  /\ activeSession' = session
  /\ timerState' = ts
  /\ saves' = Append(saves, Persist(session, ts))
  /\ last' = Op(op, desk, dp)
  /\ UNCHANGED <<monoNow, epochNow, nextId, db, cache, display>>

PersistActivateExam ==
  /\ PersistRoom
  /\ LET r == activateExamStart(activeSession, epochNow, monoNow)
     IN  SetAndPersist("activateExam", 0, 0, r.session, r.timerState)
  /\ UNCHANGED dpCalls

PersistApplyDeskDP ==
  \E i \in (IF activeSession = Null THEN {} ELSE DOMAIN activeSession.desks), d \in DpDeltas :
    /\ PersistRoom
    /\ timerState # Null
    /\ LET deskId == activeSession.desks[i].id
           applied == applyDPTime(activeSession.desks[i], d, epochNow)
           updatedDesk == [applied EXCEPT !.adjustedFinishEpochMs =
                             calculateDeskAdjustedFinishEpochMs(activeSession, applied, timerState)]
       IN  SetAndPersist("applyDeskDP", i, d,
             [activeSession EXCEPT !.desks =
                [j \in DOMAIN activeSession.desks |->
                   IF activeSession.desks[j].id = deskId THEN updatedDesk
                   ELSE activeSession.desks[j]]],
             timerState)
    /\ dpCalls' = [dpCalls EXCEPT ![i] = Append(@, d)]

PersistPauseExam ==
  /\ PersistRoom
  /\ timerState # Null
  /\ LET r == pauseTimers(activeSession, timerState, epochNow, monoNow)
     IN  SetAndPersist("pauseExam", 0, 0, r.session, r.timerState)
  /\ UNCHANGED dpCalls

PersistResumeExam ==
  /\ PersistRoom
  /\ timerState # Null
  /\ LET r == resumeTimers(activeSession, timerState, epochNow, monoNow)
     IN  SetAndPersist("resumeExam", 0, 0, r.session, r.timerState)
  /\ UNCHANGED dpCalls

PersistTransitionToExam ==
  /\ PersistRoom
  /\ timerState # Null
  /\ LET r == transitionToExamActive(activeSession, timerState, epochNow, monoNow)
     IN  SetAndPersist("transitionToExam", 0, 0, r.session, r.timerState)
  /\ UNCHANGED dpCalls

\* a statement of a save has run: the database and the save's promise move on
SaveStep(k, database, save) ==
  /\ db' = database
  /\ saves' = [saves EXCEPT ![k] = save]
  /\ UNCHANGED <<activeSession, timerState, monoNow, epochNow, nextId, dpCalls, last,
                 cache, display>>

\* BEGIN: fails when the connection already has a transaction open
SaveBegin ==
  \E k \in DOMAIN saves :
    /\ saves[k].pc = "begin"
    /\ \A j \in 1..(k - 1) : saves[j].pc # "begin"
    /\ IF db.undo = None
       THEN SaveStep(k, [db EXCEPT !.undo = Some(Tables(db))],
                     [saves[k] EXCEPT !.pc = "upsert"])
       ELSE SaveStep(k, db, [saves[k] EXCEPT !.pc = "rollback"])

\* INSERT INTO sessions ... ON CONFLICT(id) DO UPDATE
SaveUpsertSession ==
  \E k \in DOMAIN saves :
    /\ saves[k].pc = "upsert"
    /\ SaveStep(k, [db EXCEPT !.sessions = <<SessionRow(saves[k].session)>>],
                [saves[k] EXCEPT !.pc = "delete"])

\* DELETE FROM desks WHERE session_id = ?; the events go with their desks only
\* where foreign keys are enforced
SaveDeleteDesks ==
  \E k \in DOMAIN saves :
    /\ saves[k].pc = "delete"
    /\ LET session == saves[k].session
           kept == SelectSeq(db.desks, LAMBDA row : row.session_id # session.id)
           keptEvents ==
             IF db.foreignKeys
             THEN SelectSeq(db.timer_events,
                            LAMBDA ev : \E d \in DOMAIN kept : kept[d].id = ev.desk_id)
             ELSE db.timer_events
       IN  SaveStep(k, [db EXCEPT !.desks = kept, !.timer_events = keptEvents],
                    IF session.desks = <<>>
                    THEN [saves[k] EXCEPT !.pc = "commit"]
                    ELSE [saves[k] EXCEPT !.pc = "desk", !.desk = 1])

\* INSERT INTO desks: fails on a row with the same primary key
SaveInsertDesk ==
  \E k \in DOMAIN saves :
    /\ saves[k].pc = "desk"
    /\ LET session == saves[k].session
           desk == session.desks[saves[k].desk]
       IN  IF \E d \in DOMAIN db.desks : db.desks[d].id = desk.id
           THEN SaveStep(k, db, [saves[k] EXCEPT !.pc = "rollback"])
           ELSE SaveStep(k, [db EXCEPT !.desks = Append(@, DeskRow(session, desk))],
                         AfterInsert(saves[k], saves[k].desk, 0))

\* INSERT INTO timer_events: where foreign keys are enforced it fails without
\* the desk's row
SaveInsertEvent ==
  \E k \in DOMAIN saves :
    /\ saves[k].pc = "event"
    /\ LET desk == saves[k].session.desks[saves[k].desk]
           event == desk.events[saves[k].event]
       IN  IF db.foreignKeys /\ ~\E d \in DOMAIN db.desks : db.desks[d].id = desk.id
           THEN SaveStep(k, db, [saves[k] EXCEPT !.pc = "rollback"])
           ELSE SaveStep(k, [db EXCEPT !.timer_events = Append(@, EventRow(desk, event))],
                         AfterInsert(saves[k], saves[k].desk, saves[k].event))

\* COMMIT, which fails without an open transaction; then persistCurrentSession
\* writes the timer state it captured to the cache
SaveCommit ==
  \E k \in DOMAIN saves :
    /\ saves[k].pc = "commit"
    /\ IF db.undo = None
       THEN /\ db' = db
            /\ saves' = [saves EXCEPT ![k].pc = "rollback"]
            /\ cache' = cache
       ELSE /\ db' = [db EXCEPT !.undo = None]
            /\ saves' = [saves EXCEPT ![k].pc = "fulfilled"]
            /\ cache' = IF saves[k].timerState = Null THEN cache
                        ELSE [cache EXCEPT !.timerState =
                                Some(CachedTimerState(saves[k].timerState, epochNow))]
    /\ UNCHANGED <<activeSession, timerState, monoNow, epochNow, nextId, dpCalls, last,
                   display>>

\* ROLLBACK in the catch block: undoes the open transaction, whichever save
\* began it; the error is rethrown
SaveRollback ==
  \E k \in DOMAIN saves :
    /\ saves[k].pc = "rollback"
    /\ SaveStep(k,
                IF db.undo = None THEN db
                ELSE [db EXCEPT !.sessions = db.undo[1].sessions,
                                !.desks = db.undo[1].desks,
                                !.timer_events = db.undo[1].timer_events,
                                !.undo = None],
                [saves[k] EXCEPT !.pc = "rejected"])

\* the process dies and the app is started again: the store is empty, an open
\* transaction is rolled back by the journal, the in-memory cache is gone,
\* performance.now() starts over and the wall clock has moved on
Restart ==
  /\ FirstRun
  /\ activeSession' = Null
  /\ timerState' = Null
  /\ saves' = <<>>
  /\ db' = IF db.undo = None THEN db
           ELSE [db EXCEPT !.sessions = db.undo[1].sessions,
                           !.desks = db.undo[1].desks,
                           !.timer_events = db.undo[1].timer_events,
                           !.undo = None]
  /\ cache' = IF cache.durable THEN cache ELSE [cache EXCEPT !.timerState = None]
  /\ monoNow' = 0
  /\ epochNow' = epochNow + TickMs
  /\ last' = [ op |-> "restart", desk |-> 0, dp |-> 0,
               session |-> activeSession, timerState |-> timerState,
               mono |-> monoNow, epoch |-> epochNow,
               persisted |-> cache.timerState,
               pending |-> \E k \in DOMAIN saves : Pending(saves[k]) ]
  /\ UNCHANGED <<nextId, dpCalls, display>>

\* loadSessionById: the session as the connection sees it, and the timer state
\* from the cache or null
LoadSessionById ==
  /\ db.sessions # <<>>
  /\ \E tiesReversed \in BOOLEAN :
       activeSession' = loadSession(db, tiesReversed)
  /\ timerState' = IF cache.timerState = None THEN Null
                   ELSE RestoredTimerState(cache.timerState[1])
  /\ last' = IF last.op = "restart" THEN [last EXCEPT !.op = "loadAfterRestart"]
             ELSE [ op |-> "loadSessionById", desk |-> 0, dp |-> 0,
                    session |-> activeSession, timerState |-> timerState,
                    mono |-> monoNow, epoch |-> epochNow,
                    pending |-> \E k \in DOMAIN saves : Pending(saves[k]) ]
  /\ UNCHANGED <<monoNow, epochNow, nextId, dpCalls, db, cache, saves, display>>

PersistNext ==
  \/ PersistTick
  \/ PersistActivateExam
  \/ PersistApplyDeskDP
  \/ PersistPauseExam
  \/ PersistResumeExam
  \/ PersistTransitionToExam
  \/ SaveBegin
  \/ SaveUpsertSession
  \/ SaveDeleteDesks
  \/ SaveInsertDesk
  \/ SaveInsertEvent
  \/ SaveCommit
  \/ SaveRollback
  \/ Restart
  \/ LoadSessionById

PersistSpec == PersistInit /\ [][PersistNext]_vars

----------------------------------------------------------------------------
(* DeleteSpec: the store's actions with their un-awaited persists, and the
   deletion of the session from the home screen's list *)

\* DELETE FROM sessions WHERE id = ?; the desks and their events go with the
\* session only where foreign keys are enforced.  The statement runs on the
\* store's one connection, inside a transaction a save has open there
deleteSession(database, sessionId) ==
  LET keptSessions == SelectSeq(database.sessions, LAMBDA row : row.id # sessionId)
      keptDesks ==
        IF database.foreignKeys
        THEN SelectSeq(database.desks, LAMBDA row : row.session_id # sessionId)
        ELSE database.desks
      keptEvents ==
        IF database.foreignKeys
        THEN SelectSeq(database.timer_events,
                       LAMBDA ev : \E d \in DOMAIN keptDesks : keptDesks[d].id = ev.desk_id)
        ELSE database.timer_events
  IN  [database EXCEPT !.sessions = keptSessions, !.desks = keptDesks,
                       !.timer_events = keptEvents]

\* deleteSessionById of the active session: the row is deleted, the cached
\* timer state cleared and the store emptied; persists already started go on
DeleteSessionById ==
  /\ activeSession # Null
  /\ db' = deleteSession(db, activeSession.id)
  /\ cache' = [cache EXCEPT !.timerState = None]
  /\ activeSession' = Null
  /\ timerState' = Null
  /\ last' = Op("deleteSessionById", 0, 0)
  /\ UNCHANGED <<monoNow, epochNow, nextId, dpCalls, saves, display>>

DeleteNext ==
  \/ PersistTick
  \/ PersistActivateExam
  \/ PersistApplyDeskDP
  \/ PersistPauseExam
  \/ PersistResumeExam
  \/ PersistTransitionToExam
  \/ SaveBegin
  \/ SaveUpsertSession
  \/ SaveDeleteDesks
  \/ SaveInsertDesk
  \/ SaveInsertEvent
  \/ SaveCommit
  \/ SaveRollback
  \/ DeleteSessionById

DeleteSpec == PersistInit /\ [][DeleteNext]_vars

----------------------------------------------------------------------------
(* DisplaySpec: the exam screen's rendering of a remaining time, the           *)
(* formatting and colour functions applied to sample inputs around their       *)
(* thresholds, negative ones included.                                         *)

DisplayBases == {0, 600000, 1800000, 3600000, 36000000}
DisplayOffsets == {-60000, -1001, -1000, -999, -1, 0, 1, 999, 1000, 1001, 59000, 60000, 61000}
DisplayInputs == {base + offset : base \in DisplayBases, offset \in DisplayOffsets}

\* the % of JavaScript: the result has the sign of the dividend
JsMod(a, b) == IF a >= 0 THEN a % b ELSE 0 - ((0 - a) % b)

\* n < 10 ? `0${n}` : `${n}`
Padded(n) == IF n < 10 THEN "0" \o ToString(n) ELSE ToString(n)

formatCountdown(ms) ==
  LET totalSeconds == ms \div 1000
      hours == totalSeconds \div 3600
      minutes == JsMod(totalSeconds, 3600) \div 60
      seconds == JsMod(totalSeconds, 60)
      minutesStr == Padded(minutes)
      secondsStr == Padded(seconds)
  IN  IF hours > 0
      THEN ToString(hours) \o ":" \o minutesStr \o ":" \o secondsStr
      ELSE minutesStr \o ":" \o secondsStr

\* mutant: ten minutes exactly is already red
getColourCue_AmberAboveTen(remainingMs) ==
  IF remainingMs > 30 * (60 * 1000) THEN "green"
  ELSE IF remainingMs > 10 * (60 * 1000) THEN "amber"
  ELSE "red"

\* remainingMinutes = remainingMs / (60 * 1000) is compared as a real number
getColourCue(remainingMs) ==
  IF remainingMs > 30 * (60 * 1000) THEN "green"
  ELSE IF remainingMs >= 10 * (60 * 1000) THEN "amber"
  ELSE "red"

\* mutant: a desk only counts as finished below zero
isDeskFinished_BelowZero(remainingMs) == remainingMs < 0

isDeskFinished(remainingMs) == remainingMs <= 0

colors ==
  [ timerGreen |-> "#34C759", timerAmber |-> "#FF9500", timerRed |-> "#FF3B30",
    timerFinished |-> "#666666",
    deskCardGreen |-> "#ffffff", deskCardAmber |-> "#FFF9E6", deskCardRed |-> "#FFE6E6",
    deskCardFinished |-> "#F0F0F0" ]

getTimerColor(remainingMs) ==
  IF remainingMs > 30 * (60 * 1000) THEN colors.timerGreen
  ELSE IF remainingMs >= 10 * (60 * 1000) THEN colors.timerAmber
  ELSE colors.timerRed

getDeskCardColors(remainingMs, isFinished) ==
  IF isFinished
  THEN [backgroundColor |-> colors.deskCardFinished, borderColor |-> colors.timerFinished]
  ELSE IF remainingMs > 30 * (60 * 1000)
  THEN [backgroundColor |-> colors.deskCardGreen, borderColor |-> colors.timerGreen]
  ELSE IF remainingMs >= 10 * (60 * 1000)
  THEN [backgroundColor |-> colors.deskCardAmber, borderColor |-> colors.timerAmber]
  ELSE [backgroundColor |-> colors.deskCardRed, borderColor |-> colors.timerRed]

DisplayInit ==
  /\ activeSession = Null
  /\ timerState = Null
  /\ monoNow = 0
  /\ epochNow = 0
  /\ nextId = 1
  /\ dpCalls = <<>>
  /\ last = [ op |-> "init", desk |-> 0, dp |-> 0, session |-> Null,
              timerState |-> Null, mono |-> 0, epoch |-> 0 ]
  /\ db = Null
  /\ cache = Null
  /\ saves = <<>>
  /\ \E remainingMs \in DisplayInputs :
       display = [ remainingMs |-> remainingMs, rendered |-> FALSE ]

\* the screen renders the remaining time: countdown text, cue and colours
Render ==
  /\ ~display.rendered
  /\ display' =
       [ remainingMs |-> display.remainingMs,
         rendered |-> TRUE,
         countdown |-> formatCountdown(display.remainingMs),
         cue |-> getColourCue(display.remainingMs),
         finished |-> isDeskFinished(display.remainingMs),
         timerColor |-> getTimerColor(display.remainingMs),
         openCardColors |-> getDeskCardColors(display.remainingMs, FALSE),
         cardColors |-> getDeskCardColors(display.remainingMs,
                                          isDeskFinished(display.remainingMs)) ]
  /\ UNCHANGED <<activeSession, timerState, monoNow, epochNow, nextId, dpCalls, last,
                 db, cache, saves>>

DisplayNext == Render

DisplaySpec == DisplayInit /\ [][DisplayNext]_vars

----------------------------------------------------------------------------
(* Properties *)

\* the clock readings a calculation may be given
TimePoints == {k * TickMs : k \in 0..(MaxTicks + 1)}

IsPrefix(a, b) == Len(a) <= Len(b) /\ SubSeq(b, 1, Len(a)) = a

RECURSIVE SumSeq(_)
SumSeq(q) == IF q = <<>> THEN 0 ELSE q[1] + SumSeq(Tail(q))

DpEvents(desk) == SelectSeq(desk.events, IsDpEvent)

\* the valueMinutes of a desk's dp_applied events, in order
DpEventValues(desk) ==
  [k \in 1..Len(DpEvents(desk)) |-> DpEvents(desk)[k].valueMinutes[1]]

\* post is pre with exactly the one event appended to every desk, nothing else changed
AppendedToEveryDesk(pre, post, event) ==
  post = [pre EXCEPT !.desks =
            [i \in DOMAIN pre.desks |->
               [pre.desks[i] EXCEPT !.events = Append(@, event)]]]

\* the operation returned its inputs
Unchanged == activeSession = last.session /\ timerState = last.timerState

\* every desk's newest event is the pause event: nothing was done since the pause
JustPaused(session) ==
  \A i \in DOMAIN session.desks :
    /\ session.desks[i].events # <<>>
    /\ session.desks[i].events[Len(session.desks[i].events)].type = "pause"

\* C1: a pause at t1 directly followed by a resume at t2 > t1 (t1 >= 0) adds exactly
\* t2 - t1 to pausedDurationMs, and the general, reading and per-desk remaining
\* times at t1 before the pause equal those at t2 after the resume.
C1_PauseResumeConservation ==
  LET pre == last.timerState IN
  ( /\ last.op = "resumeTimers"
    /\ pre.isPaused
    /\ pre.pausedAtMonotonicMs # None
    /\ JustPaused(last.session) )
  => LET t1 == pre.pausedAtMonotonicMs[1]
         t2 == last.mono
         before == [pre EXCEPT !.isPaused = FALSE, !.pausedAtMonotonicMs = None]
     IN  t2 > t1 =>
           /\ timerState.pausedDurationMs = pre.pausedDurationMs + (t2 - t1)
           /\ calculateGeneralRemainingMs(activeSession, timerState, t2)
                = calculateGeneralRemainingMs(last.session, before, t1)
           /\ calculateReadingRemainingMs(activeSession, timerState, t2)
                = calculateReadingRemainingMs(last.session, before, t1)
           /\ \A i \in DOMAIN activeSession.desks :
                calculateDeskRemainingMs(activeSession, activeSession.desks[i], timerState, t2)
                  = calculateDeskRemainingMs(last.session, last.session.desks[i], before, t1)

\* C2: after any sequence of applyDPTime calls on a desk with positive deltas
\* d1..dn, dpTimeTakenMinutes is the initial value (0) plus their sum, and the
\* desk's dp_applied events are exactly n, in call order, the i-th carrying di.
C2_DpAccumulation ==
  \A i \in DOMAIN activeSession.desks :
    /\ activeSession.desks[i].dpTimeTakenMinutes = 0 + SumSeq(dpCalls[i])
    /\ DpEventValues(activeSession.desks[i]) = dpCalls[i]

\* a desk granted 2 and then 1 minutes: the running total would read <<2, 3>>
C2_Witness ==
  \E i \in DOMAIN activeSession.desks :
    /\ dpCalls[i] = <<2, 1>>
    /\ last.op = "applyDPTime"

\* C3: in every timer state and for every currentMonotonicMs the general, reading
\* and per-desk remaining times are >= 0.
C3_FloorAtZero ==
  \A t \in TimePoints :
    /\ calculateGeneralRemainingMs(activeSession, timerState, t) >= 0
    /\ calculateReadingRemainingMs(activeSession, timerState, t) >= 0
    /\ \A i \in DOMAIN activeSession.desks :
         calculateDeskRemainingMs(activeSession, activeSession.desks[i], timerState, t) >= 0

\* the exam is running and more time has elapsed than the baseline holds
C3_Witness ==
  /\ timerState.phase = "exam_active"
  /\ ~timerState.isPaused
  /\ activeSession.examDurationMinutes * MsPerMinute
       - AdjustedElapsedMs(timerState, monoNow) < 0
  /\ calculateGeneralRemainingMs(activeSession, timerState, monoNow) = 0

\* C4: activateExamStart invoked (by the engine's caller or by the store's
\* activateExam) while the phase is reading_time or exam_active leaves the session
\* and the timer state unchanged.
C4_ActivateOnlyFromPreExam ==
  ( /\ last.op \in {"activateExamStart", "activateExam"}
    /\ last.timerState # Null
    /\ last.timerState.phase \in {"reading_time", "exam_active"} )
  => Unchanged

\* C5: transitionToExamActive invoked while the phase is pre_exam or exam_active
\* returns the session and the timer state unchanged.
C5_TransitionOnlyFromReading ==
  ( /\ last.op = "transitionToExamActive"
    /\ last.timerState.phase \in {"pre_exam", "exam_active"} )
  => Unchanged

\* C6: transitionToExamActive from any reading_time state at M1 appends one
\* exam_active event to every desk, sets phase exam_active, monotonicStartMs M1,
\* pausedDurationMs 0, and at M1 the general remaining is the full exam duration
\* and every desk's remaining is its full exam + D.P. duration.
C6_TransitionFreshZeroPoint ==
  ( /\ last.op = "transitionToExamActive"
    /\ last.timerState.phase = "reading_time" )
  => LET M1 == last.mono IN
     /\ AppendedToEveryDesk(last.session, activeSession,
                            TimerEvent("exam_active", last.epoch, None))
     /\ timerState.phase = "exam_active"
     /\ timerState.monotonicStartMs = M1
     /\ timerState.pausedDurationMs = 0
     /\ calculateGeneralRemainingMs(activeSession, timerState, M1)
          = activeSession.examDurationMinutes * MsPerMinute
     /\ \A i \in DOMAIN activeSession.desks :
          calculateDeskRemainingMs(activeSession, activeSession.desks[i], timerState, M1)
            = (activeSession.examDurationMinutes
                 + activeSession.desks[i].dpTimeTakenMinutes) * MsPerMinute

\* C7: activateExamStart from pre_exam at M0 gives reading_time and one
\* reading_start event per desk when readingTimeMinutes > 0, else exam_active and
\* one exam_active event per desk; in both cases monotonicStartMs = M0,
\* pausedDurationMs = 0, isPaused = false and pausedAtMonotonicMs absent.
C7_ActivateFromPreExam ==
  ( /\ last.op = "activateExamStart"
    /\ last.timerState.phase = "pre_exam" )
  => LET target == IF last.session.readingTimeMinutes > 0
                   THEN [phase |-> "reading_time", type |-> "reading_start"]
                   ELSE [phase |-> "exam_active", type |-> "exam_active"]
     IN  /\ AppendedToEveryDesk(last.session, activeSession,
                                TimerEvent(target.type, last.epoch, None))
         /\ timerState.phase = target.phase
         /\ timerState.monotonicStartMs = last.mono
         /\ timerState.pausedDurationMs = 0
         /\ timerState.isPaused = FALSE
         /\ timerState.pausedAtMonotonicMs = None

\* a two-desk session without reading time activated from a paused pre-exam state
C7_Witness ==
  /\ last.op = "activateExamStart"
  /\ last.timerState.phase = "pre_exam"
  /\ last.timerState.isPaused
  /\ last.session.readingTimeMinutes = 0
  /\ Len(activeSession.desks) = 2
  /\ timerState.phase = "exam_active"

\* C8: pauseTimers returns its inputs when isPaused is already true; otherwise
\* it appends one pause event to every desk, sets isPaused and pausedAtMonotonicMs
\* = currentMonotonicMs, and leaves phase, monotonicStartMs, pausedDurationMs.
C8_PauseTimers ==
  last.op = "pauseTimers"
  => IF last.timerState.isPaused
     THEN Unchanged
     ELSE /\ AppendedToEveryDesk(last.session, activeSession,
                                 TimerEvent("pause", last.epoch, None))
          /\ timerState = [last.timerState EXCEPT
                             !.isPaused = TRUE,
                             !.pausedAtMonotonicMs = Some(last.mono)]
          /\ timerState.phase = last.timerState.phase
          /\ timerState.monotonicStartMs = last.timerState.monotonicStartMs
          /\ timerState.pausedDurationMs = last.timerState.pausedDurationMs

\* pauseTimers called again, later, on timers that are already paused
C8_Witness ==
  /\ last.op = "pauseTimers"
  /\ last.timerState.isPaused
  /\ last.timerState.pausedAtMonotonicMs # None
  /\ last.mono > last.timerState.pausedAtMonotonicMs[1]
  /\ Len(activeSession.desks) = 2

\* C9: resumeTimers returns its inputs exactly when the state is not paused or
\* pausedAtMonotonicMs is absent; otherwise (any recorded value, 0 included) it
\* appends one resume event to every desk, adds currentMonotonicMs -
\* pausedAtMonotonicMs to pausedDurationMs, clears isPaused and pausedAtMonotonicMs.
C9_ResumeTimers ==
  last.op = "resumeTimers"
  => LET pre == last.timerState IN
     IF ~pre.isPaused \/ pre.pausedAtMonotonicMs = None
     THEN Unchanged
     ELSE /\ AppendedToEveryDesk(last.session, activeSession,
                                 TimerEvent("resume", last.epoch, None))
          /\ timerState = [pre EXCEPT
                             !.isPaused = FALSE,
                             !.pausedAtMonotonicMs = None,
                             !.pausedDurationMs =
                                pre.pausedDurationMs + (last.mono - pre.pausedAtMonotonicMs[1])]

\* the store's operation was effective / a no-op, by the state it was called in
EffectiveOp ==
  \/ last.op = "activateExam" /\ last.timerState = Null
  \/ last.op = "transitionToExam" /\ last.timerState.phase = "reading_time"
  \/ last.op = "pauseExam" /\ ~last.timerState.isPaused
  \/ last.op = "resumeExam" /\ last.timerState.isPaused
                            /\ last.timerState.pausedAtMonotonicMs # None
NoOp ==
  \/ last.op = "pauseExam" /\ last.timerState.isPaused
  \/ last.op = "resumeExam" /\ ~last.timerState.isPaused

\* the desks a session shares with the session before the operation
SameDesk(pre, i, post, j) ==
  pre.id = post.id /\ pre.desks[i].id = post.desks[j].id

\* C10: across every operation of the engine and the driver, each desk's previous
\* events are a prefix of its new events; every effective phase transition, pause,
\* resume and D.P. grant appends exactly one event to each affected desk, and no-op
\* calls append none.
C10_AppendOnlyAuditTrail ==
  (last.session # Null /\ activeSession # Null)
  => /\ \A i \in DOMAIN last.session.desks, j \in DOMAIN activeSession.desks :
          SameDesk(last.session, i, activeSession, j)
          => IsPrefix(last.session.desks[i].events, activeSession.desks[j].events)
     /\ EffectiveOp
          => \A i \in DOMAIN last.session.desks :
               Len(activeSession.desks[i].events) = Len(last.session.desks[i].events) + 1
     /\ last.op = "applyDeskDP"
          => \A i \in DOMAIN last.session.desks :
               Len(activeSession.desks[i].events)
                 = Len(last.session.desks[i].events) + (IF i = last.desk THEN 1 ELSE 0)
     /\ NoOp
          => \A i \in DOMAIN last.session.desks :
               activeSession.desks[i].events = last.session.desks[i].events

\* C11: no operation lowers or resets a desk's dpTimeTakenMinutes: across every
\* operation of the engine and the driver on an existing session (saving an edit
\* included), each desk's dpTimeTakenMinutes is at least what it was before.
C11_DpNeverDecreases ==
  (last.session # Null /\ activeSession # Null)
  => \A i \in DOMAIN last.session.desks, j \in DOMAIN activeSession.desks :
       SameDesk(last.session, i, activeSession, j)
       => activeSession.desks[j].dpTimeTakenMinutes
            >= last.session.desks[i].dpTimeTakenMinutes

\* C12: applyDPTime called with a zero or negative delta returns the desk
\* unchanged: dpTimeTakenMinutes keeps its value and no dp_applied event is added.
C12_NonPositiveDeltaIsNoOp ==
  (last.op = "applyDPTime" /\ last.dp <= 0)
  => /\ activeSession.desks[last.desk] = last.session.desks[last.desk]
     /\ activeSession.desks[last.desk].dpTimeTakenMinutes
          = last.session.desks[last.desk].dpTimeTakenMinutes
     /\ Len(DpEvents(activeSession.desks[last.desk]))
          = Len(DpEvents(last.session.desks[last.desk]))

\* C13: monotonicStartMs changes only at phase entry (activation, transition to
\* the exam); pause, resume and a D.P. grant leave monotonicStartMs and phase as
\* they were, whatever the state they are called in.
C13_StartChangesOnlyAtPhaseEntry ==
  timerState # Null
  => /\ last.op \in {"pauseExam", "resumeExam", "applyDeskDP"}
          => /\ timerState.monotonicStartMs = last.timerState.monotonicStartMs
             /\ timerState.phase = last.timerState.phase
     /\ ( \/ last.timerState = Null
          \/ timerState.monotonicStartMs # last.timerState.monotonicStartMs )
          => last.op \in {"activateExam", "transitionToExam"}

\* an effective resume, some time after the pause
C13_Witness ==
  /\ last.op = "resumeExam"
  /\ last.timerState.isPaused
  /\ ~timerState.isPaused
  /\ timerState.pausedDurationMs > 0

\* C14: a D.P. grant affects exactly one desk. The engine's applyDPTime changes
\* only that desk's dpTimeTakenMinutes and events (id, deskNumber, studentName and
\* the stored adjustedFinishEpochMs are as before); the store's applyDeskDP leaves
\* every other desk, the desk order and the timer state unchanged.
C14_DpGrantTouchesOneDesk ==
  last.op = "applyDeskDP"
  => LET pre == last.session.desks[last.desk]
         post == activeSession.desks[last.desk]
         engine == applyDPTime(pre, last.dp, last.epoch)
     IN  /\ engine.id = pre.id
         /\ engine.deskNumber = pre.deskNumber
         /\ engine.studentName = pre.studentName
         /\ engine.adjustedFinishEpochMs = pre.adjustedFinishEpochMs
         /\ post.id = pre.id
         /\ post.deskNumber = pre.deskNumber
         /\ post.studentName = pre.studentName
         /\ post.dpTimeTakenMinutes = pre.dpTimeTakenMinutes + last.dp
         /\ post.events = Append(pre.events, TimerEvent("dp_applied", last.epoch, Some(last.dp)))
         /\ DOMAIN activeSession.desks = DOMAIN last.session.desks
         /\ \A j \in DOMAIN last.session.desks :
              j # last.desk => activeSession.desks[j] = last.session.desks[j]
         /\ [activeSession EXCEPT !.desks = last.session.desks] = last.session
         /\ timerState = last.timerState

\* the first of two desks is granted D.P. while the timers are paused
C14_Witness ==
  /\ last.op = "applyDeskDP"
  /\ last.desk = 1
  /\ Len(activeSession.desks) = 2
  /\ timerState.isPaused
  /\ activeSession.desks[1].dpTimeTakenMinutes > activeSession.desks[2].dpTimeTakenMinutes

\* timer states of every phase, paused or not, with and without accumulated
\* pause time, reachable or not
AnyTimerStates ==
  { [ phase |-> phase,
      isPaused |-> isPaused,
      monotonicStartMs |-> TickMs,
      pausedAtMonotonicMs |-> IF isPaused THEN Some(2 * TickMs) ELSE None,
      pausedDurationMs |-> pausedDurationMs ] :
    phase \in {"pre_exam", "reading_time", "exam_active", "dp_adjustments"},
    isPaused \in BOOLEAN,
    pausedDurationMs \in {0, TickMs} }

\* C15: the projected finish time of a desk is startTimeEpochMs +
\* readingTimeMinutes*60000 + (examDurationMinutes + dpTimeTakenMinutes)*60000,
\* the same for every timer state (phase, pause history, zero-point), and pause,
\* resume, activation and transition never change it.
C15_FinishProjectionPauseIndependent ==
  \A i \in DOMAIN activeSession.desks :
    LET desk == activeSession.desks[i]
        finish == calculateDeskAdjustedFinishEpochMs(activeSession, desk, timerState)
    IN  /\ finish = activeSession.startTimeEpochMs
                      + activeSession.readingTimeMinutes * 60000
                      + (activeSession.examDurationMinutes + desk.dpTimeTakenMinutes) * 60000
        /\ \A ts \in AnyTimerStates :
             calculateDeskAdjustedFinishEpochMs(activeSession, desk, ts) = finish
        /\ last.op \in {"pauseTimers", "resumeTimers", "activateExamStart",
                        "transitionToExamActive"}
             => finish = calculateDeskAdjustedFinishEpochMs(
                           last.session, last.session.desks[i], last.timerState)

\* a resume after a pause that lasted, on a session with a desk holding D.P. time
C15_Witness ==
  /\ last.op = "resumeTimers"
  /\ timerState.pausedDurationMs > 0
  /\ \E i \in DOMAIN activeSession.desks : activeSession.desks[i].dpTimeTakenMinutes > 0

\* q lists exactly the elements of p, each as often
IsPermutation(p, q) ==
  /\ Len(p) = Len(q)
  /\ \A i \in 1..Len(p) :
       Cardinality({k \in 1..Len(q) : q[k] = p[i]})
         = Cardinality({k \in 1..Len(p) : p[k] = p[i]})

\* C16: sortDesks returns a permutation of session.desks ordered by the finish
\* time computed fresh per desk: desks with distinct finish times in strictly
\* ascending order of finish time, desks with equal finish times in ascending
\* order of deskNumber; session.desks keeps its own order.
C16_SortDesks ==
  LET finish(desk) == activeSession.startTimeEpochMs
                        + activeSession.readingTimeMinutes * 60000
                        + (activeSession.examDurationMinutes + desk.dpTimeTakenMinutes) * 60000
  IN  \A sorted \in {sortDesks(activeSession, timerState)} :
        /\ IsPermutation(activeSession.desks, sorted)
        /\ \A k \in 1..(Len(sorted) - 1) :
             \/ finish(sorted[k]) < finish(sorted[k + 1])
             \/ /\ finish(sorted[k]) = finish(sorted[k + 1])
                /\ sorted[k].deskNumber < sorted[k + 1].deskNumber
        /\ \A i \in DOMAIN activeSession.desks : activeSession.desks[i].deskNumber = i

\* desk 1 was granted more D.P. time than desk 2: the sorted list starts with desk 2
C16_Witness ==
  /\ Len(activeSession.desks) = 2
  /\ activeSession.desks[1].dpTimeTakenMinutes > activeSession.desks[2].dpTimeTakenMinutes
  /\ activeSession.desks[2].dpTimeTakenMinutes > 0
  /\ sortDesks(activeSession, timerState)[1].deskNumber = 2

\* elapsed = (isPaused ? pausedAtMonotonicMs : currentMonotonicMs)
\*             - monotonicStartMs - pausedDurationMs
ClaimedElapsedMs(ts, currentMonotonicMs) ==
  (IF ts.isPaused THEN ts.pausedAtMonotonicMs[1] ELSE currentMonotonicMs)
    - ts.monotonicStartMs - ts.pausedDurationMs

\* C17: per-desk remaining is frozen before the exam phase: in pre_exam and
\* reading_time it is (examDurationMinutes + dpTimeTakenMinutes)*60000 for every
\* current time and pause state; in the later phases it is that total less the
\* elapsed time, floored at 0.
C17_DeskRemainingFrozenBeforeExam ==
  \A t \in TimePoints, i \in DOMAIN activeSession.desks :
    LET desk == activeSession.desks[i]
        totalMs == (activeSession.examDurationMinutes + desk.dpTimeTakenMinutes) * 60000
        remaining == calculateDeskRemainingMs(activeSession, desk, timerState, t)
    IN  IF timerState.phase \in {"pre_exam", "reading_time"}
        THEN remaining = totalMs
        ELSE remaining = Max(0, totalMs - ClaimedElapsedMs(timerState, t))

\* reading time has been running for a while and a desk holds D.P. time
C17_Witness ==
  /\ timerState.phase = "reading_time"
  /\ ~timerState.isPaused
  /\ monoNow > timerState.monotonicStartMs
  /\ \E i \in DOMAIN activeSession.desks : activeSession.desks[i].dpTimeTakenMinutes > 0

\* C18: general exam remaining is not frozen during reading time: in pre_exam it
\* is examDurationMinutes*60000; in reading_time it is that baseline less the time
\* elapsed since the reading phase was entered, floored at 0, so while unpaused it
\* is smaller at a later time than at an earlier one (until it reaches 0).
C18_GeneralRemainingRunsInReading ==
  LET baseMs == activeSession.examDurationMinutes * 60000
      remaining(t) == calculateGeneralRemainingMs(activeSession, timerState, t)
  IN  /\ timerState.phase = "pre_exam"
           => \A t \in TimePoints : remaining(t) = baseMs
      /\ timerState.phase = "reading_time"
           => /\ \A t \in TimePoints :
                   remaining(t) = Max(0, baseMs - ClaimedElapsedMs(timerState, t))
              /\ ~timerState.isPaused
                   => \A t1, t2 \in TimePoints :
                        (t1 < t2 /\ remaining(t1) > 0) => remaining(t2) < remaining(t1)

\* one tick into an unpaused reading phase the general remaining is below the baseline
C18_Witness ==
  /\ timerState.phase = "reading_time"
  /\ ~timerState.isPaused
  /\ timerState.pausedDurationMs = 0
  /\ monoNow = timerState.monotonicStartMs + TickMs
  /\ calculateGeneralRemainingMs(activeSession, timerState, monoNow)
       = activeSession.examDurationMinutes * 60000 - TickMs

\* C19: during reading time the exam timer does not decrement: while the phase is
\* reading_time the general remaining the exam screen shows stays at
\* examDurationMinutes*60000 as monotonic time advances.
C19_ExamTimerHeldInReading ==
  (timerState # Null /\ timerState.phase = "reading_time")
  => calculateGeneralRemainingMs(activeSession, timerState, monoNow)
       = activeSession.examDurationMinutes * 60000

\* C20: reading remaining is 0 in every phase other than reading_time; in
\* reading_time it is readingTimeMinutes*60000 less the elapsed time, floored at
\* 0, so with no pause it is 0 exactly from monotonicStartMs +
\* readingTimeMinutes*60000 on.
C20_ReadingRemaining ==
  LET readingMs == activeSession.readingTimeMinutes * 60000
      remaining(t) == calculateReadingRemainingMs(activeSession, timerState, t)
  IN  \A t \in TimePoints :
        IF timerState.phase # "reading_time"
        THEN remaining(t) = 0
        ELSE /\ remaining(t) = Max(0, readingMs - ClaimedElapsedMs(timerState, t))
             /\ (~timerState.isPaused /\ timerState.pausedDurationMs = 0)
                  => (remaining(t) = 0 <=> t >= timerState.monotonicStartMs + readingMs)

\* the reading time has run out, unpaused, and nothing has moved the phase on yet
C20_Witness ==
  /\ timerState.phase = "reading_time"
  /\ ~timerState.isPaused
  /\ timerState.pausedDurationMs = 0
  /\ activeSession.readingTimeMinutes > 0
  /\ monoNow > timerState.monotonicStartMs + activeSession.readingTimeMinutes * 60000
  /\ calculateReadingRemainingMs(activeSession, timerState, monoNow) = 0

ExamActiveEvents(desk) ==
  SelectSeq(desk.events, LAMBDA ev : ev.type = "exam_active")

\* the transition only happens once the reading time is used up, and it adds
\* exactly one exam_active event to every desk
C21_TransitionWhenReadingOver ==
  /\ last.op = "transitionToExam"
       => /\ last.timerState.phase = "reading_time"
          /\ calculateReadingRemainingMs(last.session, last.timerState, last.mono) = 0
          /\ AppendedToEveryDesk(last.session, activeSession,
                                 TimerEvent("exam_active", last.epoch, None))
  /\ (timerState # Null /\ timerState.phase = "exam_active")
       => \A i \in DOMAIN activeSession.desks :
            Len(ExamActiveEvents(activeSession.desks[i])) = 1
  /\ (timerState # Null /\ timerState.phase = "reading_time")
       => \A i \in DOMAIN activeSession.desks :
            Len(ExamActiveEvents(activeSession.desks[i])) = 0

InReadingTime == timerState # Null /\ timerState.phase = "reading_time"
InExamActive == timerState # Null /\ timerState.phase = "exam_active"
TimersRunning == timerState # Null /\ ~timerState.isPaused

\* C21: the driver calls transitionToExam only in reading_time with no reading
\* time remaining, so the phase never moves on while reading time remains; and
\* once reading_time is entered, if the timers are not left paused forever and the
\* tick keeps firing, the phase eventually becomes exam_active, with exactly one
\* exam_active event appended per desk for the transition.
C21_AutoTransition ==
  /\ []C21_TransitionWhenReadingOver
  /\ ([]<>TimersRunning) => (InReadingTime ~> InExamActive)

\* the reading time was paused for a while, ran out after the resume, and the
\* effect has just moved two desks on to the exam
C21_Witness ==
  /\ last.op = "transitionToExam"
  /\ last.timerState.pausedDurationMs > 0
  /\ timerState.phase = "exam_active"
  /\ Len(activeSession.desks) = 2

\* C22: the worked example. With a 90 minute exam, 10 minutes of reading time and
\* start time T, activating at M0 gives reading_time with monotonicStartMs = M0 and
\* no reading time left at M0 + 10*60000; the transition at M1 gives exam_active
\* with monotonicStartMs = M1; a first grant of 30 minutes to desk #1 makes its
\* dpTimeTakenMinutes 30, appends one dp_applied event of 30 minutes and stores
\* T + 10*60000 + 120*60000 as its finish time; and desk #1 then has 120*60000
\* remaining at M1.
C22_Scenario ==
  LET T == activeSession.startTimeEpochMs
      desk1 == activeSession.desks[1]
  IN
  /\ last.op = "activateExam"
       => /\ timerState.phase = "reading_time"
          /\ timerState.monotonicStartMs = last.mono
          /\ calculateReadingRemainingMs(activeSession, timerState,
                                         last.mono + 10 * 60000) = 0
  /\ last.op = "transitionToExam"
       => /\ timerState.phase = "exam_active"
          /\ timerState.monotonicStartMs = last.mono
  /\ (last.op = "applyDeskDP" /\ last.desk = 1
        /\ last.session.desks[1].dpTimeTakenMinutes = 0)
       => /\ desk1.dpTimeTakenMinutes = 30
          /\ desk1.events = Append(last.session.desks[1].events,
                                   TimerEvent("dp_applied", last.epoch, Some(30)))
          /\ desk1.adjustedFinishEpochMs = T + 10 * 60000 + 120 * 60000
  /\ (InExamActive /\ desk1.dpTimeTakenMinutes = 30)
       => calculateDeskRemainingMs(activeSession, desk1, timerState,
                                   timerState.monotonicStartMs) = 120 * 60000

\* the example's last step: desk #1 has just been granted its 30 minutes during
\* the exam, after the reading time ran out
C22_Witness ==
  /\ last.op = "applyDeskDP"
  /\ last.desk = 1
  /\ last.session.desks[1].dpTimeTakenMinutes = 0
  /\ last.timerState.phase = "exam_active"
  /\ activeSession.desks[1].dpTimeTakenMinutes = 30
  /\ Len(ExamActiveEvents(activeSession.desks[1])) = 1

\* C23: after every applyDeskDP the granted desk's stored adjustedFinishEpochMs is
\* startTimeEpochMs + readingTimeMinutes*60000
\*   + (examDurationMinutes + the desk's new cumulative dpTimeTakenMinutes)*60000.
C23_StoredFinishRecomputed ==
  last.op = "applyDeskDP"
    => LET desk == activeSession.desks[last.desk]
           cumulative == last.session.desks[last.desk].dpTimeTakenMinutes + last.dp
       IN  /\ desk.dpTimeTakenMinutes = cumulative
           /\ desk.adjustedFinishEpochMs =
                activeSession.startTimeEpochMs
                  + activeSession.readingTimeMinutes * 60000
                  + (activeSession.examDurationMinutes + cumulative) * 60000

\* a second grant to a desk that already holds D.P. time, in a session with
\* reading time, after the timers were activated
C23_Witness ==
  /\ last.op = "applyDeskDP"
  /\ last.session.desks[last.desk].dpTimeTakenMinutes > 0
  /\ last.session.desks[last.desk].adjustedFinishEpochMs > 0
  /\ activeSession.readingTimeMinutes > 0
  /\ activeSession.desks[last.desk].dpTimeTakenMinutes
       > last.session.desks[last.desk].dpTimeTakenMinutes

\* the elements of a sequence, whatever their order and number
Elements(seq) == {seq[k] : k \in DOMAIN seq}

\* every persist started so far has been fulfilled
AllFulfilled == saves # <<>> /\ \A k \in DOMAIN saves : saves[k].pc = "fulfilled"

\* every persist started so far has completed, fulfilled or rejected
AllCompleted == saves # <<>> /\ \A k \in DOMAIN saves : ~Pending(saves[k])

\* the session handed to the latest saveSession call
LastSaved == saves[Len(saves)].session

\* C24: after any number of saveSession calls for the same session, loadSession
\* returns desks with exactly the dpTimeTakenMinutes, the adjustedFinishEpochMs and
\* the events of the last saved session, in the same order, none duplicated or lost,
\* events with equal timestamps included.
C24_RecordStoreRoundTrip ==
  (last.op = "loadSessionById" /\ ~last.pending /\ AllFulfilled)
    => /\ Len(activeSession.desks) = Len(LastSaved.desks)
       /\ \A i \in DOMAIN activeSession.desks :
            /\ activeSession.desks[i].dpTimeTakenMinutes
                 = LastSaved.desks[i].dpTimeTakenMinutes
            /\ activeSession.desks[i].adjustedFinishEpochMs
                 = LastSaved.desks[i].adjustedFinishEpochMs
            /\ activeSession.desks[i].events = LastSaved.desks[i].events

\* loaded is the session, up to the order and the repetition of a desk's events
SameUpToEventOrder(loaded, session) ==
  /\ loaded.id = session.id
  /\ loaded.examDurationMinutes = session.examDurationMinutes
  /\ loaded.readingTimeMinutes = session.readingTimeMinutes
  /\ loaded.startTimeEpochMs = session.startTimeEpochMs
  /\ Len(loaded.desks) = Len(session.desks)
  /\ \A i \in DOMAIN loaded.desks :
       /\ i \in DOMAIN session.desks
       /\ loaded.desks[i].id = session.desks[i].id
       /\ loaded.desks[i].dpTimeTakenMinutes = session.desks[i].dpTimeTakenMinutes
       /\ loaded.desks[i].adjustedFinishEpochMs = session.desks[i].adjustedFinishEpochMs
       /\ Elements(loaded.desks[i].events) = Elements(session.desks[i].events)

\* the session as it was created and first saved
AsCreated(session) ==
  [session EXCEPT !.desks =
     [i \in DOMAIN session.desks |->
        [session.desks[i] EXCEPT !.dpTimeTakenMinutes = 0,
                                 !.adjustedFinishEpochMs = 0,
                                 !.events = <<>>]]]

\* C25: saveSession is all-or-nothing: whatever step it has reached or failed at,
\* loadSession sees a session that was handed to saveSession, whole, with all its
\* desks and events, and never a state in between.
C25_SaveAllOrNothing ==
  last.op = "loadSessionById"
    => \/ SameUpToEventOrder(activeSession, AsCreated(last.session))
       \/ SameUpToEventOrder(activeSession, last.session)
       \/ \E k \in DOMAIN saves : SameUpToEventOrder(activeSession, saves[k].session)

\* C26: after any sequence of store actions that each start a persist without
\* awaiting it, once all persists have completed the record store holds the
\* store's current activeSession and the cache its current timerState.
C26_PersistsConverge ==
  ( /\ AllCompleted
    /\ activeSession = LastSaved
    /\ timerState = saves[Len(saves)].timerState )
    => /\ db.sessions # <<>>
       /\ db.undo = None
       /\ SameUpToEventOrder(loadSession(db, FALSE), activeSession)
       /\ timerState # Null
            => /\ cache.timerState # None
               /\ RestoredTimerState(cache.timerState[1]) = timerState

\* C27: after a restart (the monotonic clock starts over, the wall clock moves on)
\* followed by loadSessionById, the restored timer state has the last persisted
\* phase and pause flag, and the general and per-desk remaining times are not
\* greater than immediately before the restart.
C27_RestartRecovery ==
  ( /\ last.op = "loadAfterRestart"
    /\ ~last.pending
    /\ last.persisted # None
    /\ last.timerState = RestoredTimerState(last.persisted[1])
    /\ SameUpToEventOrder(activeSession, last.session) )
    => /\ timerState # Null
       /\ timerState.phase = last.persisted[1].phase
       /\ timerState.isPaused = last.persisted[1].isPaused
       /\ calculateGeneralRemainingMs(activeSession, timerState, monoNow)
            <= calculateGeneralRemainingMs(last.session, last.timerState, last.mono)
       /\ \A i \in DOMAIN activeSession.desks :
            calculateDeskRemainingMs(activeSession, activeSession.desks[i],
                                     timerState, monoNow)
              <= calculateDeskRemainingMs(last.session, last.session.desks[i],
                                          last.timerState, last.mono)

\* the colours of a band
BandColors(cue) ==
  IF cue = "green"
  THEN [timer |-> colors.timerGreen, card |-> colors.deskCardGreen]
  ELSE IF cue = "amber"
  THEN [timer |-> colors.timerAmber, card |-> colors.deskCardAmber]
  ELSE [timer |-> colors.timerRed, card |-> colors.deskCardRed]

\* C28: the cue is green iff remainingMs > 30*60000, amber iff
\* 10*60000 <= remainingMs <= 30*60000 and red otherwise, so every finished desk
\* is red; getColourCue, getTimerColor and the non-finished branch of
\* getDeskCardColors put every remainingMs into the same band.
C28_UrgencyBands ==
  display.rendered
    => LET ms == display.remainingMs IN
       /\ display.cue \in {"green", "amber", "red"}
       /\ display.cue = "green" <=> ms > 30 * 60000
       /\ display.cue = "amber" <=> (10 * 60000 <= ms /\ ms <= 30 * 60000)
       /\ display.cue = "red" <=> ms < 10 * 60000
       /\ display.finished => display.cue = "red"
       /\ display.timerColor = BandColors(display.cue).timer
       /\ display.openCardColors.borderColor = BandColors(display.cue).timer
       /\ display.openCardColors.backgroundColor = BandColors(display.cue).card

\* a remaining time of exactly ten minutes has been rendered, as amber
C28_Witness ==
  /\ display.rendered
  /\ display.remainingMs = 10 * 60000
  /\ display.cue = "amber"
  /\ display.timerColor = colors.timerAmber

\* two digits
TwoDigits(n) == IF n < 10 THEN "0" \o ToString(n) ELSE ToString(n)

\* MM:SS below an hour and H:MM:SS from an hour on, for a duration that is not
\* negative
CountdownText(ms) ==
  LET totalSeconds == ms \div 1000
      hours == totalSeconds \div 3600
      minutes == (totalSeconds % 3600) \div 60
      seconds == totalSeconds % 60
  IN  IF ms >= 3600000
      THEN ToString(hours) \o ":" \o TwoDigits(minutes) \o ":" \o TwoDigits(seconds)
      ELSE TwoDigits(minutes) \o ":" \o TwoDigits(seconds)

\* C29: formatCountdown(ms) renders the whole seconds of max(0, ms), as MM:SS when
\* ms < 3600000 and as H:MM:SS when ms >= 3600000; every negative input renders
\* exactly as zero does, 00:00, and never yields a negative component.
C29_FormatCountdown ==
  display.rendered
    => /\ display.countdown = CountdownText(Max(0, display.remainingMs))
       /\ display.remainingMs < 0 => display.countdown = "00:00"

\* the desk's countdown has run out at the given instant
FinishedAt(session, i, ts, currentMonotonicMs) ==
  isDeskFinished(calculateDeskRemainingMs(session, session.desks[i], ts, currentMonotonicMs))

AllDesksFinished ==
  /\ InExamActive
  /\ \A i \in DOMAIN activeSession.desks :
       FinishedAt(activeSession, i, timerState, monoNow)

\* a desk that was finished before the latest step still is, unless the step was
\* a D.P. grant to that desk
C30_StaysFinished ==
  \A i \in DOMAIN activeSession.desks :
    ( /\ last.timerState # Null
      /\ last.timerState.phase = "exam_active"
      /\ FinishedAt(last.session, i, last.timerState, last.mono)
      /\ ~(last.op = "applyDeskDP" /\ last.desk = i) )
      => /\ InExamActive
         /\ FinishedAt(activeSession, i, timerState, monoNow)

\* C30: once the phase is exam_active, if the timers are not left paused forever
\* and no further D.P. is granted (the grants are finitely many here), then as
\* monotonic time advances every desk eventually satisfies
\* isDeskFinished(calculateDeskRemainingMs), and a finished desk stays finished
\* until a later D.P. grant to that desk.
C30_ExamTerminates ==
  /\ []C30_StaysFinished
  /\ ([]<>TimersRunning) => (InExamActive ~> AllDesksFinished)

\* every desk has finished although the timers were paused for a while and a
\* desk was granted D.P. time
C30_Witness ==
  /\ AllDesksFinished
  /\ timerState.pausedDurationMs > 0
  /\ \E i \in DOMAIN activeSession.desks : activeSession.desks[i].dpTimeTakenMinutes > 0
  /\ last.op = "tick"

\* C31: in every state reached through activateExamStart, transitionToExamActive,
\* pauseTimers, resumeTimers and applyDPTime in any order, a pause still in
\* effect at the transition included, elapsed time is never negative: the general
\* remaining time is at most examDurationMinutes*60000, the reading remaining time
\* at most readingTimeMinutes*60000 and a desk's remaining time at most
\* (examDurationMinutes + dpTimeTakenMinutes)*60000.
C31_RemainingWithinTotal ==
  timerState # Null
    => /\ calculateGeneralRemainingMs(activeSession, timerState, monoNow)
            <= activeSession.examDurationMinutes * 60000
       /\ calculateReadingRemainingMs(activeSession, timerState, monoNow)
            <= activeSession.readingTimeMinutes * 60000
       /\ \A i \in DOMAIN activeSession.desks :
            calculateDeskRemainingMs(activeSession, activeSession.desks[i],
                                     timerState, monoNow)
              <= (activeSession.examDurationMinutes
                    + activeSession.desks[i].dpTimeTakenMinutes) * 60000

\* the position of a timer state's phase on pre_exam -> reading_time -> exam_active;
\* without a timer state the screen shows pre_exam
PhaseRank(ts) ==
  IF ts = Null THEN 0
  ELSE IF ts.phase = "pre_exam" THEN 0
  ELSE IF ts.phase = "reading_time" THEN 1
  ELSE 2

EventsOfType(desk, type) == SelectSeq(desk.events, LAMBDA ev : ev.type = type)

\* C32: over any sequence of engine and store operations on one session, repeated
\* activateExam calls and pause/resume included, the phase only moves forward along
\* pre_exam -> reading_time -> exam_active, and each desk's events hold at most one
\* reading_start and at most one exam_active entry.
C32_PhaseNeverRegresses ==
  activeSession # Null
    => /\ (last.session # Null /\ last.session.id = activeSession.id)
            => PhaseRank(timerState) >= PhaseRank(last.timerState)
       /\ \A i \in DOMAIN activeSession.desks :
            /\ Len(EventsOfType(activeSession.desks[i], "reading_start")) <= 1
            /\ Len(EventsOfType(activeSession.desks[i], "exam_active")) <= 1

(* C33: a newly created session starts in pre_exam.  Right after the store's
   createSession(s) (reached through the session screen's save of a new
   session), whatever session was active before, the store's timerState does
   not carry over to s: it is null, or its phase is pre_exam and it is not
   paused. *)
C33_NewSessionStartsPreExam ==
  last.op = "handleSaveNew"
    => \/ timerState = Null
       \/ (timerState.phase = "pre_exam" /\ ~timerState.isPaused)

\* the rows of a session in the record store: its sessions row, its desks'
\* rows and its desks' timer_events rows
RowsOf(database, session) ==
  [ sessions |-> SelectSeq(database.sessions, LAMBDA row : row.id = session.id),
    desks |-> SelectSeq(database.desks,
                LAMBDA row : \/ row.session_id = session.id
                             \/ \E i \in DOMAIN session.desks : session.desks[i].id = row.id),
    timer_events |-> SelectSeq(database.timer_events,
                LAMBDA ev : \E i \in DOMAIN session.desks : session.desks[i].id = ev.desk_id) ]

(* C34: a deleted session never reappears.  Once deleteSessionById of a
   session has completed, the record store contains no session, desk or event
   row of that session and the cache holds no timer state for it, in every
   later state, persists started before the delete and completing after it
   included. *)
C34_DeletedStaysDeleted ==
  last.op = "deleteSessionById"
    => /\ RowsOf(db, last.session).sessions = <<>>
       /\ RowsOf(db, last.session).desks = <<>>
       /\ RowsOf(db, last.session).timer_events = <<>>
       /\ cache.timerState = None

\* the three countdowns agree for two timer states and clock readings
SameCountdowns(sessionA, tsA, monoA, sessionB, tsB, monoB) ==
  /\ calculateGeneralRemainingMs(sessionA, tsA, monoA)
       = calculateGeneralRemainingMs(sessionB, tsB, monoB)
  /\ calculateReadingRemainingMs(sessionA, tsA, monoA)
       = calculateReadingRemainingMs(sessionB, tsB, monoB)
  /\ \A i \in DOMAIN sessionA.desks :
       i \in DOMAIN sessionB.desks
         => calculateDeskRemainingMs(sessionA, sessionA.desks[i], tsA, monoA)
              = calculateDeskRemainingMs(sessionB, sessionB.desks[i], tsB, monoB)

Paused == timerState # Null /\ timerState.isPaused

\* while paused, every clock reading from the pause instant on gives the
\* countdowns of the pause instant
C35_FrozenWhilePaused ==
  Paused
    => /\ timerState.pausedAtMonotonicMs # None
       /\ \A c \in TimePoints \cup {monoNow} :
            c >= timerState.pausedAtMonotonicMs[1]
              => SameCountdowns(activeSession, timerState, c,
                                activeSession, timerState,
                                timerState.pausedAtMonotonicMs[1])

\* the countdowns right after the pause are those of the running timer at
\* that instant
C35_ValueAtPause ==
  (last.op = "pauseExam" /\ ~last.timerState.isPaused)
    => /\ Paused
       /\ SameCountdowns(activeSession, timerState, monoNow,
                         last.session, last.timerState, last.mono)

\* a pause in reading_time that began while reading time remained
PausedWithReadingTimeLeft ==
  /\ Paused
  /\ timerState.phase = "reading_time"
  /\ timerState.pausedAtMonotonicMs # None
  /\ calculateReadingRemainingMs(activeSession, timerState,
                                 timerState.pausedAtMonotonicMs[1]) > 0

C35_NoTransitionWhilePaused ==
  PausedWithReadingTimeLeft => timerState'.phase = "reading_time"

(* C35: pause freezes every countdown.  While isPaused is true the general,
   reading and per-desk remaining times are the same for every
   currentMonotonicMs >= pausedAtMonotonicMs, namely the value at the instant
   of the pause; and the driver never moves on from reading_time during a
   pause that began while reading time remained. *)
C35_PauseFreezes ==
  /\ []C35_FrozenWhilePaused
  /\ []C35_ValueAtPause
  /\ [][C35_NoTransitionWhilePaused]_vars

\* time has passed during a pause that began with reading time remaining
C35_Witness ==
  /\ PausedWithReadingTimeLeft
  /\ monoNow > timerState.pausedAtMonotonicMs[1]

(* C36: pause-state consistency.  In every reachable timer state isPaused is
   true exactly when pausedAtMonotonicMs is present, pausedAtMonotonicMs is at
   least monotonicStartMs when present, and pausedDurationMs is not negative. *)
C36_PauseStateConsistent ==
  timerState # Null
    => /\ timerState.isPaused <=> timerState.pausedAtMonotonicMs # None
       /\ timerState.pausedAtMonotonicMs # None
            => timerState.pausedAtMonotonicMs[1] >= timerState.monotonicStartMs
       /\ timerState.pausedDurationMs >= 0

\* the types of a desk's pause and resume events, in order
PauseResumeTypes(desk) ==
  LET evs == SelectSeq(desk.events, LAMBDA ev : ev.type \in {"pause", "resume"})
  IN  [k \in DOMAIN evs |-> evs[k].type]

(* C37: pause and resume events strictly alternate.  In every desk's events
   the pause and resume entries alternate, starting with a pause, and the last
   of them is a pause exactly when the timer state is currently paused. *)
C37_PauseResumeAlternate ==
  (activeSession # Null /\ timerState # Null)
    => \A i \in DOMAIN activeSession.desks :
         LET types == PauseResumeTypes(activeSession.desks[i]) IN
         /\ \A k \in DOMAIN types :
              types[k] = IF k % 2 = 1 THEN "pause" ELSE "resume"
         /\ (Len(types) % 2 = 1) <=> timerState.isPaused

\* a desk's session-level events, in order
SessionEvents(desk) == SelectSeq(desk.events, IsSessionEvent)

(* C38: the audit fan-out is uniform.  All desks of the session have the same
   subsequence of session-level events (reading_start, exam_active, pause,
   resume: same types, timestamps and order); the desks' logs differ only in
   their dp_applied entries. *)
C38_FanOutUniform ==
  activeSession # Null
    => \A i, j \in DOMAIN activeSession.desks :
         /\ SessionEvents(activeSession.desks[i]) = SessionEvents(activeSession.desks[j])
         /\ \A k \in DOMAIN activeSession.desks[i].events :
              IsSessionEvent(activeSession.desks[i].events[k])
                => activeSession.desks[i].events[k].type
                     \in {"reading_start", "exam_active", "pause", "resume"}

\* two desks with several session-level events whose logs differ by a D.P. entry
C38_Witness ==
  /\ activeSession # Null
  /\ Len(activeSession.desks) >= 2
  /\ Len(SessionEvents(activeSession.desks[1])) >= 2
  /\ DpEvents(activeSession.desks[1]) # <<>>
  /\ DpEvents(activeSession.desks[2]) = <<>>
  /\ activeSession.desks[1].events # activeSession.desks[2].events

\* the monotonic clock readings a caller can still supply: none is back-dated
ClockReadings == {c \in TimePoints \cup {monoNow} : c >= monoNow}

(* C39: a desk never has less time than the general countdown.  For every
   desk, reachable timer state and currentMonotonicMs (a reading of the
   monotonic clock, so not earlier than the present one) the desk's remaining
   time is at least the general remaining time; in exam_active a desk without
   D.P. time has exactly the general remaining time, and while neither value is
   clamped at zero the difference is exactly dpTimeTakenMinutes * 60000. *)
C39_DeskAtLeastGeneral ==
  timerState # Null
    => \A i \in DOMAIN activeSession.desks, c \in ClockReadings :
         LET desk == activeSession.desks[i]
             deskMs == calculateDeskRemainingMs(activeSession, desk, timerState, c)
             generalMs == calculateGeneralRemainingMs(activeSession, timerState, c)
         IN  /\ deskMs >= generalMs
             /\ (timerState.phase = "exam_active" /\ desk.dpTimeTakenMinutes = 0)
                  => deskMs = generalMs
             /\ (timerState.phase = "exam_active" /\ deskMs > 0 /\ generalMs > 0)
                  => deskMs - generalMs = desk.dpTimeTakenMinutes * 60000

\* in exam_active with time running: a desk with D.P. time ahead of the general
\* countdown by exactly that time, next to a desk without
C39_Witness ==
  /\ timerState # Null
  /\ timerState.phase = "exam_active"
  /\ monoNow > timerState.monotonicStartMs
  /\ calculateGeneralRemainingMs(activeSession, timerState, monoNow) > 0
  /\ \E i, j \in DOMAIN activeSession.desks :
       /\ activeSession.desks[i].dpTimeTakenMinutes > 0
       /\ activeSession.desks[j].dpTimeTakenMinutes = 0
       /\ calculateDeskRemainingMs(activeSession, activeSession.desks[i], timerState, monoNow)
            > calculateGeneralRemainingMs(activeSession, timerState, monoNow)

(* C40: the stored finish time is always current.  In every reachable driver
   state each desk's stored adjustedFinishEpochMs equals
   calculateDeskAdjustedFinishEpochMs for that desk, desks that were never
   granted D.P. included. *)
C40_StoredFinishCurrent ==
  activeSession # Null
    => \A i \in DOMAIN activeSession.desks :
         activeSession.desks[i].adjustedFinishEpochMs
           = calculateDeskAdjustedFinishEpochMs(activeSession, activeSession.desks[i],
                                                EffectiveTimerState)

====
